---------------------------- MODULE Spec2Model ----------------------------
(***************************************************************************)
(* Geometry resource of ndlar_flow (proto_nd_flow/resources/geometry.py):  *)
(* construction of the geometry state from the description files, its      *)
(* persistence in the shared store, and the query functions in_fid,        *)
(* get_drift_coordinate and solid_angle.                                   *)
(*                                                                         *)
(* Lengths are integers in mm.  Python sequences are 0-based, the tuples   *)
(* here are 1-based: xyz[0] is xyz[1], bounds[i][0][0] is bounds[i][1][1]. *)
(***************************************************************************)
EXTENDS Integers, Sequences, FiniteSets, TLC

(***************************************************************************)
(* Bounds of the model.                                                    *)
(***************************************************************************)
\* number of processes that share the store
NProcs == 2
\* margins passed to in_fid range over 0..MaxMargin
MaxMargin == 1
\* drift distances passed to get_drift_coordinate range over 0..MaxDrift
MaxDrift == 2
\* coordinates and rectangle edges given to _rect_solid_angle_sign
MaxCoord == 4

Procs == 1..NProcs

(***************************************************************************)
(* Small helpers.                                                          *)
(***************************************************************************)
\* the element of a one-element set; The({e(x) : x \in {v}}) evaluates v once
\* and names its value x in e
The(S) == CHOOSE x \in S : TRUE
Min(S) == The({(CHOOSE x \in T : \A y \in T : x <= y) : T \in {S}})
Max(S) == The({(CHOOSE x \in T : \A y \in T : x >= y) : T \in {S}})
Abs(x) == IF x < 0 THEN -x ELSE x
Range(f) == {f[k] : k \in DOMAIN f}

\* proto_nd_flow.util.units: lengths are kept in mm, 1 cm = 10 mm
cm == 10

(***************************************************************************)
(* proto_nd_flow.util.lut.LUT: a dense array indexed by integer key        *)
(* tuples, one (min, max) range per key dimension, filled with a default.  *)
(***************************************************************************)
\* numpy dtype conversion on assignment into the dense array: 'i1' wraps to
\* 8 bits; 'i4' and 'f4' keep every integer the model holds (below 2^24)
Wrap(v, w) == ((v + (w \div 2)) % w) - (w \div 2)
Cast(dtype, v) ==
    CASE dtype = "i1" -> Wrap(v, 256)
      [] OTHER -> v

\* the key tuples a table with these ranges is indexed over
KeySpace(ranges) ==
    CASE Len(ranges) = 1 ->
            {<<a>> : a \in ranges[1][1]..ranges[1][2]}
      [] Len(ranges) = 2 ->
            {<<a, b>> : a \in ranges[1][1]..ranges[1][2],
                        b \in ranges[2][1]..ranges[2][2]}
      [] OTHER ->
            {<<a, b, c, e>> : a \in ranges[1][1]..ranges[1][2],
                              b \in ranges[2][1]..ranges[2][2],
                              c \in ranges[3][1]..ranges[3][2],
                              e \in ranges[4][1]..ranges[4][2]}

\* the dense array: one entry per key tuple, row-major, each key coordinate
\* offset by the minimum of its range
RangeSize(ranges, i) == ranges[i][2] - ranges[i][1] + 1
\* entries spanned by one step of key coordinate i (tables have 1, 2 or 4
\* key coordinates)
Stride(ranges, i) ==
    CASE i >= Len(ranges) -> 1
      [] i = Len(ranges) - 1 -> RangeSize(ranges, i + 1)
      [] i = Len(ranges) - 2 -> RangeSize(ranges, i + 1) * RangeSize(ranges, i + 2)
      [] OTHER -> RangeSize(ranges, i + 1) * RangeSize(ranges, i + 2)
                      * RangeSize(ranges, i + 3)
ArraySize(ranges) == RangeSize(ranges, 1) * Stride(ranges, 1)
Offset(ranges, key) ==
    CASE Len(ranges) = 1 -> key[1] - ranges[1][1]
      [] Len(ranges) = 2 -> (key[1] - ranges[1][1]) * Stride(ranges, 1)
                                + (key[2] - ranges[2][1])
      [] OTHER -> (key[1] - ranges[1][1]) * Stride(ranges, 1)
                      + (key[2] - ranges[2][1]) * Stride(ranges, 2)
                      + (key[3] - ranges[3][1]) * Stride(ranges, 3)
                      + (key[4] - ranges[4][1])
\* position (from 1) of a key's entry in the dense array, and the key of a position
ArrayIndex(ranges, key) == Offset(ranges, key) + 1
KeyAt(ranges, n) ==
    [i \in 1..Len(ranges) |->
        ranges[i][1] + (((n - 1) \div Stride(ranges, i)) % RangeSize(ranges, i))]

\* a sequence with every element evaluated
Dense(seq) == SubSeq(seq, 1, Len(seq))

\* LUT(dtype, *min_max_keys, shape=...), then .default = default
LUT(dtype, ranges, default) ==
    The({[dtype |-> dtype, min_max_keys |-> r, default |-> default,
          data |-> Dense([n \in 1..ArraySize(r) |-> default])] : r \in {ranges}})

InRange(lut, key) ==
    /\ Len(key) = Len(lut.min_max_keys)
    /\ \A i \in 1..Len(key) :
          /\ lut.min_max_keys[i][1] <= key[i]
          /\ key[i] <= lut.min_max_keys[i][2]

\* lut.keys()
lut_keys(lut) == KeySpace(lut.min_max_keys)

\* lut[key] for a key inside the allocated ranges
lut_get(lut, key) == lut.data[ArrayIndex(lut.min_max_keys, key)]

\* lut[keys] = vals, writes: the set of <<key, value>> written, one per key;
\* scalars are converted to the table's dtype
IndexedWrites(lut, writes) ==
    {<<ArrayIndex(lut.min_max_keys, w[1]), w[2]>> :
        w \in {v \in writes : InRange(lut, v[1])}}
EntryAfter(lut, at, n) ==
    IF \A w \in at : w[1] # n THEN lut.data[n]
    ELSE IF lut.dtype = "f4" THEN (CHOOSE w \in at : w[1] = n)[2]
    ELSE Cast(lut.dtype, (CHOOSE w \in at : w[1] = n)[2])
lut_set(lut, writes) ==
    The({The({[l EXCEPT !.data = Dense([n \in 1..Len(l.data) |-> EntryAfter(l, at, n)])] :
                at \in {IndexedWrites(l, writes)}}) :
            l \in {lut}})

\* the element of an allocated range nearest to an index
Clip(lo, hi, v) == IF v < lo THEN lo ELSE IF v > hi THEN hi ELSE v

\* what a lookup with a key outside the allocated ranges can produce: the
\* spec leaves it undefined (an index error, the default, or the entry the
\* truncated index lands on)
lut_get_out_of_range(lut, key) ==
    {[err |-> "IndexError", val |-> lut.default],
     [err |-> "none", val |-> lut.default],
     [err |-> "none",
      val |-> lut_get(lut, [i \in 1..Len(key) |->
                 Clip(lut.min_max_keys[i][1], lut.min_max_keys[i][2], key[i])])]}

(***************************************************************************)
(* The geometry description files (yaml).  A description d has the keys of *)
(* the three documents: the pixel/tile layout (crs_geometry_file), the     *)
(* detector/module layout (det_geometry_file) and the light layout         *)
(* (lrs_geometry_file).  Dicts are functions; a dict is iterated in        *)
(* ascending key order.                                                    *)
(***************************************************************************)
\* drift lengths [cm] the detector description may state
DriftLengths == {2, 3}

\* chip_channel -> [z, y] grid position: chip 11, channels 0..3, a 2x2 grid
ChipChannelToPosition ==
    (11000 :> <<0, 0>>) @@ (11001 :> <<1, 0>>) @@
    (11002 :> <<0, 1>>) @@ (11003 :> <<1, 1>>)

\* 16 tiles per module: tiles 1..8 on the low-x anode, 9..16 on the high-x
\* anode (30 mm either side of the module centre), each anode a 4x2
\* arrangement of tiles in (y, z)
TilePositions ==
    [t \in 1..16 |->
        <<IF t <= 8 THEN -30 ELSE 30,
          ((((t - 1) % 8) \div 2) * 2 - 3) * 4,
          (((t - 1) % 2) * 2 - 1) * 4>>]

TileOrientations ==
    [t \in 1..16 |-> IF t <= 8 THEN <<1, 1, -1>> ELSE <<-1, 1, 1>>]

\* tile -> chip -> io_group*1000 + io_channel
TileChipToIo ==
    [t \in 1..16 |-> (11 :> (IF t <= 8 THEN 1000 + t ELSE 2000 + (t - 8)))]

\* module world offsets [cm] and io_group membership, two modules
TpcOffsets == << <<-4, 0, 0>>, <<4, 0, 0>> >>
ModuleToIoGroups == (1 :> <<1, 2>>) @@ (2 :> <<3, 4>>)

\* light layout: two TPCs, two detectors each
LightTpcCenter == (0 :> <<-20, 0, 0>>) @@ (1 :> <<20, 0, 0>>)
LightDetCenter == (0 :> <<0, -8, 0>>) @@ (1 :> <<0, 8, 0>>)
LightDetGeom == (0 :> "wide") @@ (1 :> "narrow")
LightGeom ==
    [wide   |-> [min |-> <<-2, -4, -6>>, max |-> <<2, 4, 6>>],
     narrow |-> [min |-> <<-2, -2, -6>>, max |-> <<2, 2, 6>>]]
LightDetAdc == [tpc \in {0, 1} |-> [det \in {0, 1} |-> tpc]]
LightDetChan ==
    [tpc \in {0, 1} |-> (0 :> <<0, 1>>) @@ (1 :> <<2>>)]

Description(drift_length, multitile, lrs_version) ==
    [multitile_layout_version |-> multitile,
     pixel_pitch |-> 4,
     chip_channel_to_position |-> ChipChannelToPosition,
     tile_orientations |-> TileOrientations,
     tile_positions |-> TilePositions,
     tile_chip_to_io |-> TileChipToIo,
     drift_length |-> drift_length,
     tpc_offsets |-> TpcOffsets,
     module_to_io_groups |-> ModuleToIoGroups,
     format_version |-> lrs_version,
     tpc_center |-> LightTpcCenter,
     det_center |-> LightDetCenter,
     det_geom |-> LightDetGeom,
     geom |-> LightGeom,
     det_adc |-> LightDetAdc,
     det_chan |-> LightDetChan]

\* other layouts a description may state, as the fields in which they differ
\* from the one above:
\*   single: one module with one io_group, one tile, the same 2x2 grid
\*   uneven: the second module has one io_group where the first has two
\*   small:  two modules of two tiles each
\*   sparse: tile 8 is read out on io_channel 9, and the modules are 5 cm
\*           up in y
\*   lightgap: detector 1 of TPC 1 is read out on channel 4, which leaves
\*           digitizer addresses inside the ranges that no detector uses
Layouts == {"std", "single", "uneven", "small", "sparse", "lightgap"}
LayoutOf(layout, d) ==
    CASE layout = "single" ->
            [d EXCEPT !.tile_positions = (1 :> <<-30, 0, 0>>),
                      !.tile_orientations = (1 :> <<1, 1, -1>>),
                      !.tile_chip_to_io = (1 :> (11 :> 1001)),
                      !.tpc_offsets = << <<0, 0, 0>> >>,
                      !.module_to_io_groups = (1 :> <<1>>)]
      [] layout = "uneven" ->
            [d EXCEPT !.module_to_io_groups = (1 :> <<1, 2>>) @@ (2 :> <<3>>)]
      [] layout = "small" ->
            [d EXCEPT !.tile_positions = (1 :> <<-30, 0, 0>>) @@ (2 :> <<30, 0, 0>>),
                      !.tile_orientations = (1 :> <<1, 1, -1>>) @@ (2 :> <<-1, 1, 1>>),
                      !.tile_chip_to_io = (1 :> (11 :> 1001)) @@ (2 :> (11 :> 2001))]
      [] layout = "sparse" ->
            [d EXCEPT !.tile_chip_to_io =
                          [t \in 1..16 |-> IF t = 8 THEN (11 :> 1009) ELSE @[t]],
                      !.tpc_offsets = << <<-4, 5, 0>>, <<4, 5, 0>> >>]
      [] layout = "lightgap" ->
            [d EXCEPT !.det_chan = (0 :> ((0 :> <<0, 1>>) @@ (1 :> <<2>>)))
                                   @@ (1 :> ((0 :> <<0, 1>>) @@ (1 :> <<4>>)))]
      [] OTHER -> d

\* the format version the builders are written for, and another one
KnownGoodVersion == "0.0.0"
OtherVersion == "1.0.0"

\* the description files a run may be given, by what differs between them:
\* well-formed ones, a pixel layout without the multitile_layout_version
\* key, a document of another format version (the pixel layout, the
\* detector layout or the light layout), and the other layouts
StdFiles(dl) ==
    [drift_length |-> dl, multitile_layout_version |-> TRUE,
     format_version |-> KnownGoodVersion, layout |-> "std",
     crs_format_version |-> KnownGoodVersion,
     det_format_version |-> KnownGoodVersion]
FileSets ==
    {StdFiles(dl) : dl \in DriftLengths}
    \cup {[StdFiles(2) EXCEPT !.multitile_layout_version = FALSE],
          [StdFiles(2) EXCEPT !.format_version = OtherVersion]}
    \cup {[StdFiles(3) EXCEPT !.crs_format_version = OtherVersion],
          [StdFiles(3) EXCEPT !.det_format_version = OtherVersion]}
    \cup {[StdFiles(2) EXCEPT !.layout = l] : l \in Layouts}
\* yaml.load of the files
ReadFiles(f) ==
    LayoutOf(f.layout,
             Description(f.drift_length, f.multitile_layout_version, f.format_version)
                 @@ [crs_format_version |-> f.crs_format_version,
                     det_format_version |-> f.det_format_version])

(***************************************************************************)
(* Geometry._load_charge_geometry                                          *)
(***************************************************************************)
NTilesOf(d) == Cardinality(DOMAIN d.tile_chip_to_io)
NModulesOf(d) == Cardinality(DOMAIN d.module_to_io_groups)

\* tiles = np.arange(1, len(tile_chip_to_io)*len(module_to_io_groups)+1)
Tiles(d) == 1..(NTilesOf(d) * NModulesOf(d))

\* the four key lists the pixel table's ranges are computed from
IoGroupValues(d) ==
    {(d.tile_chip_to_io[tc[1]][tc[2]] \div 1000) * (mod - 1) * 2 :
        tc \in {x \in (DOMAIN d.tile_chip_to_io) \X
                      UNION {DOMAIN d.tile_chip_to_io[t] : t \in DOMAIN d.tile_chip_to_io} :
                    x[2] \in DOMAIN d.tile_chip_to_io[x[1]]},
        mod \in DOMAIN d.module_to_io_groups}
IoChannelValues(d) ==
    {d.tile_chip_to_io[tc[1]][tc[2]] % 1000 :
        tc \in {x \in (DOMAIN d.tile_chip_to_io) \X
                      UNION {DOMAIN d.tile_chip_to_io[t] : t \in DOMAIN d.tile_chip_to_io} :
                    x[2] \in DOMAIN d.tile_chip_to_io[x[1]]}}
ChipIdValues(d) == {cc \div 1000 : cc \in DOMAIN d.chip_channel_to_position}
ChannelIdValues(d) == {cc % 1000 : cc \in DOMAIN d.chip_channel_to_position}

MinMax(S) == <<Min(S), Max(S)>>

\* pixel_coordinates_2D_min_max, tile_min_max, anode_min_max
pixel_coordinates_2D_min_max(d) ==
    <<MinMax(IoGroupValues(d)), MinMax(IoChannelValues(d)),
      MinMax(ChipIdValues(d)), MinMax(ChannelIdValues(d))>>
tile_min_max(d) ==
    <<<<Min(IoGroupValues(d)), NModulesOf(d) * Max(IoGroupValues(d))>>,
      <<Min(IoChannelValues(d)), NModulesOf(d) * Max(IoChannelValues(d))>>>>
anode_min_max(d) ==
    <<<<Min(Tiles(d)), NModulesOf(d) * Max(Tiles(d))>>>>

\* the anode coordinate and the drift direction written for a global tile id
\* (16 tiles per module and 4 modules are hard-coded)
AnodeCoordOf(d, tile) ==
    d.tile_positions[((tile - 1) % 16) + 1][1]
        + cm * d.tpc_offsets[(((tile - 1) \div 16) % 4) + 1][1]
DriftDirOf(d, tile) == d.tile_orientations[((tile - 1) % 16) + 1][1]

anode_drift_coordinate_built(d) ==
    lut_set(LUT("f4", anode_min_max(d), 0),
            {<<<<t>>, AnodeCoordOf(d, t)>> : t \in Tiles(d)})
drift_dir_built(d) ==
    lut_set(LUT("i1", anode_min_max(d), 0),
            {<<<<t>>, DriftDirOf(d, t)>> : t \in Tiles(d)})

\* io_group and io_channel the builder computes for a chip of a tile in a module
IoGroupOf(d, module_id, tile, chip) ==
    (d.tile_chip_to_io[tile][chip] \div 1000)
        + (module_id - 1) * Len(d.module_to_io_groups[module_id])
IoChannelOf(d, tile, chip) == d.tile_chip_to_io[tile][chip] % 1000

\* Geometry._rotate_pixel
rotate_pixel(pixel_pos, tile_orientation) ==
    <<pixel_pos[1] * tile_orientation[3], pixel_pos[2] * tile_orientation[2]>>

\* the (z, y) written for a chip_channel of a tile in a module
\* (pixel_pitch is even, so the halves are exact)
PixelZY(d, module_id, tile, chip_channel) ==
    LET pitch == d.pixel_pitch
        zs == {p[1] * pitch : p \in Range(d.chip_channel_to_position)}
        ys == {p[2] * pitch : p \in Range(d.chip_channel_to_position)}
        z_size == Max(zs) - Min(zs) + pitch
        y_size == Max(ys) - Min(ys) + pitch
        z0 == d.chip_channel_to_position[chip_channel][1] * pitch
                  - (z_size \div 2) + (pitch \div 2)
        y0 == d.chip_channel_to_position[chip_channel][2] * pitch
                  - (y_size \div 2) + (pitch \div 2)
        rot == rotate_pixel(<<z0, y0>>, d.tile_orientations[tile])
    IN  <<rot[1] + d.tile_positions[tile][3] + d.tpc_offsets[module_id][3] * cm,
          rot[2] + d.tile_positions[tile][2] + d.tpc_offsets[module_id][2] * cm>>

\* the (tile, chip) pairs of the layout, and the (tile, chip_channel) pairs
\* whose chip is mapped on the tile
TileChips(d) ==
    {tc \in (DOMAIN d.tile_chip_to_io) \X
            UNION {DOMAIN d.tile_chip_to_io[t] : t \in DOMAIN d.tile_chip_to_io} :
        tc[2] \in DOMAIN d.tile_chip_to_io[tc[1]]}
TileChipChannels(d) ==
    {tcc \in (DOMAIN d.tile_chip_to_io) \X (DOMAIN d.chip_channel_to_position) :
        (tcc[2] \div 1000) \in DOMAIN d.tile_chip_to_io[tcc[1]]}

\* the writes of one module's loop in the order the loop makes them: for
\* each tile, the tile-id write of each of its chips, then the pixel write
\* of each chip_channel whose chip is mapped on the tile.  pos orders them.
OrderedTileIdWrites(d, module_id) ==
    {[pos |-> <<tc[1], 1, tc[2]>>,
      key |-> <<IoGroupOf(d, module_id, tc[1], tc[2]), IoChannelOf(d, tc[1], tc[2])>>,
      val |-> tc[1] + (module_id - 1) * NTilesOf(d)] : tc \in TileChips(d)}
OrderedPixelWrites(d, module_id) ==
    {[pos |-> <<tcc[1], 2, tcc[2]>>,
      key |-> <<IoGroupOf(d, module_id, tcc[1], tcc[2] \div 1000),
                IoChannelOf(d, tcc[1], tcc[2] \div 1000),
                tcc[2] \div 1000, tcc[2] % 1000>>,
      val |-> PixelZY(d, module_id, tcc[1], tcc[2])] : tcc \in TileChipChannels(d)}
PosBefore(a, b) ==
    \/ a[1] < b[1]
    \/ a[1] = b[1] /\ a[2] < b[2]
    \/ a[1] = b[1] /\ a[2] = b[2] /\ a[3] < b[3]
\* of the writes W, the last one made to each key, as <<key, value>>
LastWrites(W) ==
    The({{<<w.key, w.val>> :
            w \in {v \in V : \A u \in V : u.key = v.key => ~PosBefore(v.pos, u.pos)}} :
        V \in {W}})

\* the tile-id entries one module's loop writes, as <<key, tile id>>: for a
\* key written by several tiles the last tile in iteration order stays
TileIdWrites(d, module_id) == LastWrites(OrderedTileIdWrites(d, module_id))

\* the pixel entries one module's loop writes, as <<key, (z, y)>>
PixelWrites(d, module_id) == LastWrites(OrderedPixelWrites(d, module_id))

\* what an access with a key outside a table's allocated ranges does (the
\* tables' behaviour there is undefined): it raises, it has no effect (a
\* read gives the default), or it lands on the entry the truncated index
\* selects
OutOfRangeOutcomes == {"IndexError", "default", "clipped"}
ClipKey(lut, key) ==
    [i \in 1..Len(key) |->
        Clip(lut.min_max_keys[i][1], lut.min_max_keys[i][2], key[i])]
\* the writes W as they reach the table lut
WritesReaching(lut, W, oor) ==
    IF oor = "clipped"
    THEN LastWrites({[w EXCEPT !.key = ClipKey(lut, w.key)] : w \in W})
    ELSE LastWrites({w \in W : InRange(lut, w.key)})
\* a read of lut at key
ReadReaching(lut, key, oor) ==
    IF InRange(lut, key) THEN lut_get(lut, key)
    ELSE IF oor = "clipped" THEN lut_get(lut, ClipKey(lut, key))
    ELSE lut.default

\* the sentinel the per-module extrema start from
Sentinel == 999999999

\* one io_group of a module: update the running extrema from the pixel
\* positions of the keys of that io_group and from its anode coordinate
UpdatedExtrema(acc, x, ys, zs) ==
    LET first_yz == /\ Abs(acc.min_y) = Sentinel /\ Abs(acc.max_y) = Sentinel
                    /\ Abs(acc.min_z) = Sentinel /\ Abs(acc.max_z) = Sentinel
        first_x == Abs(acc.min_x) = Sentinel /\ Abs(acc.max_x) = Sentinel
    IN  [min_x |-> IF first_x THEN x ELSE Min({acc.min_x, x}),
         max_x |-> IF first_x THEN x ELSE Max({acc.max_x, x}),
         min_y |-> IF first_yz THEN Min(ys) ELSE Min({acc.min_y} \cup ys),
         max_y |-> IF first_yz THEN Max(ys) ELSE Max({acc.max_y} \cup ys),
         min_z |-> IF first_yz THEN Min(zs) ELSE Min({acc.min_z} \cup zs),
         max_z |-> IF first_yz THEN Max(zs) ELSE Max({acc.max_z} \cup zs),
         err |-> "none"]
\* the keys of the io_group, their pixel positions and tile ids, and x, the
\* smallest anode coordinate of the io_group (np.unique(...)[0]); an empty
\* selection of keys makes the minimum raise, a tile id outside the anode
\* table's ranges makes the lookup undefined
IoGroupKeys(pix, tile, anode, K, acc, oor) ==
    The({IF K = {} THEN [acc EXCEPT !.err = "ValueError"]
         ELSE IF oor = "IndexError" /\ \E t \in tile_ids : ~InRange(anode, <<t>>)
         THEN [acc EXCEPT !.err = "IndexError"]
         ELSE The({UpdatedExtrema(acc, x, ys, zs) :
                ys \in {{lut_get(pix, k)[2] : k \in K}},
                zs \in {{lut_get(pix, k)[1] : k \in K}},
                x \in {Min({ReadReaching(anode, <<t>>, oor) : t \in tile_ids})}}) :
        tile_ids \in {{lut_get(tile, <<k[1], k[2]>>) : k \in K}}})
IoGroupExtrema(pix, tile, anode, iog, acc, oor) ==
    The({IoGroupKeys(pix, tile, anode, K, acc, oor) :
        K \in {{k \in lut_keys(pix) : k[1] = iog}}})

RECURSIVE IoGroupLoop(_, _, _, _, _, _, _)
IoGroupLoop(pix, tile, anode, iogs, i, acc, oor) ==
    IF i > Len(iogs) \/ acc.err # "none" THEN acc
    ELSE The({IoGroupLoop(pix, tile, anode, iogs, i + 1, next, oor) :
                next \in {IoGroupExtrema(pix, tile, anode, iogs[i], acc, oor)}})

\* the extrema of one module, from the sentinels
ModuleExtrema(d, pix, tile, anode, module_id, oor) ==
    IoGroupLoop(pix, tile, anode, d.module_to_io_groups[module_id], 1,
                [min_x |-> -Sentinel, max_x |-> Sentinel,
                 min_y |-> -Sentinel, max_y |-> Sentinel,
                 min_z |-> -Sentinel, max_z |-> Sentinel, err |-> "none"], oor)
\* the bounds appended for one module: [[min_x, min_y, min_z], [max_x, max_y, max_z]]
ModuleBounds(acc) ==
    <<<<acc.min_x, acc.min_y, acc.min_z>>, <<acc.max_x, acc.max_y, acc.max_z>>>>

\* the positions of the writes of a module that fall outside the tables
OutOfRangeWrites(d, module_id, st) ==
    {w.pos : w \in {v \in OrderedTileIdWrites(d, module_id) : ~InRange(st.tile_id, v.key)}}
        \cup {w.pos : w \in {v \in OrderedPixelWrites(d, module_id) :
                                ~InRange(st.pixel_coordinates_2D, v.key)}}
FirstPos(P) == The({(CHOOSE a \in Q : \A b \in Q : ~PosBefore(b, a)) : Q \in {P}})

\* one module of the loop when a write outside the ranges raises: the
\* writes made before it stay
ModuleRaising(d, module_id, st, first) ==
    [st EXCEPT
        !.tile_id = lut_set(@, LastWrites({w \in OrderedTileIdWrites(d, module_id) :
                                              PosBefore(w.pos, first)})),
        !.pixel_coordinates_2D =
            lut_set(@, LastWrites({w \in OrderedPixelWrites(d, module_id) :
                                      PosBefore(w.pos, first)})),
        !.err = "IndexError"]
\* one module of the loop when every write is made: the tables after its
\* writes, then its bounds or the error its extrema raise
ModuleWritten(d, anode, module_id, st, oor) ==
    The({The({IF acc.err # "none"
              THEN [tile_id |-> tile, pixel_coordinates_2D |-> pix,
                    module_RO_bounds |-> st.module_RO_bounds, err |-> acc.err]
              ELSE [tile_id |-> tile, pixel_coordinates_2D |-> pix,
                    module_RO_bounds |-> Append(st.module_RO_bounds, ModuleBounds(acc)),
                    err |-> "none"] :
                acc \in {ModuleExtrema(d, pix, tile, anode, module_id, oor)}}) :
        tile \in {lut_set(st.tile_id,
                          WritesReaching(st.tile_id, OrderedTileIdWrites(d, module_id), oor))},
        pix \in {lut_set(st.pixel_coordinates_2D,
                         WritesReaching(st.pixel_coordinates_2D,
                                        OrderedPixelWrites(d, module_id), oor))}})
ModuleStep(d, anode, module_id, st, oor) ==
    The({IF oor = "IndexError" /\ bad # {}
         THEN ModuleRaising(d, module_id, st, FirstPos(bad))
         ELSE ModuleWritten(d, anode, module_id, st, oor) :
        bad \in {OutOfRangeWrites(d, module_id, st)}})

\* the loop over the modules, in ascending module id: each module writes its
\* tile-id and pixel entries, then its bounds are taken from the tables as
\* they stand; the loop ends at the first error
RECURSIVE ModuleLoop(_, _, _, _, _)
ModuleLoop(d, anode, module_id, st, oor) ==
    IF module_id \notin DOMAIN d.module_to_io_groups \/ st.err # "none" THEN st
    ELSE The({ModuleLoop(d, anode, module_id + 1, next, oor) :
                next \in {ModuleStep(d, anode, module_id, st, oor)}})

\* the error raised before the module loop, "none" when it is reached: the
\* missing multitile_layout_version key, then the list of anode coordinates
\* (a tile position or a module offset that does not exist, for the first
\* tile that lacks one), then the list of drift directions
AnodeListError(d) ==
    The({IF bad = {} THEN "none"
         ELSE IF ((Min(bad) - 1) % 16) + 1 \notin DOMAIN d.tile_positions THEN "KeyError"
         ELSE "IndexError" :
        bad \in {{t \in Tiles(d) :
                    \/ ((t - 1) % 16) + 1 \notin DOMAIN d.tile_positions
                    \/ (((t - 1) \div 16) % 4) + 1 > Len(d.tpc_offsets)}}})
DriftDirListError(d) ==
    IF \E t \in Tiles(d) : ((t - 1) % 16) + 1 \notin DOMAIN d.tile_orientations
    THEN "KeyError" ELSE "none"
charge_geometry_error(d) ==
    IF ~d.multitile_layout_version THEN "RuntimeError"
    ELSE IF AnodeListError(d) # "none" THEN AnodeListError(d)
    ELSE DriftDirListError(d)

\* lar_detector_bounds: the extrema of the module bounds
LarDetectorBounds(mrb) ==
    <<[a \in 1..3 |-> Min({mrb[i][1][a] : i \in 1..Len(mrb)})],
      [a \in 1..3 |-> Max({mrb[i][2][a] : i \in 1..Len(mrb)})]>>

\* variant without the factor 2 (the half thickness)
CathodeThicknessHalf(d, lar, mdd) ==
    The({IF mdd < anode_to_cathode THEN Abs(anode_to_cathode - mdd) ELSE 0 :
        anode_to_cathode \in
            {Min({Abs(lar[1][1] - cx) : cx \in {o[1] * 10 : o \in Range(d.tpc_offsets)}})}})

\* cathode_thickness from the anode-to-cathode distance
CathodeThickness(d, lar, mdd) ==
    The({IF mdd < anode_to_cathode THEN Abs(anode_to_cathode - mdd) * 2 ELSE 0 :
        anode_to_cathode \in
            {Min({Abs(lar[1][1] - cx) : cx \in {o[1] * 10 : o \in Range(d.tpc_offsets)}})}})

\* the fields set once the module loop has run
ChargeFields(d, anode, st) ==
    The({[err |-> "none",
          pixel_pitch |-> d.pixel_pitch,
          max_drift_distance |-> d.drift_length * cm,
          pixel_coordinates_2D |-> st.pixel_coordinates_2D,
          tile_id |-> st.tile_id,
          anode_drift_coordinate |-> anode,
          drift_dir |-> drift_dir_built(d),
          module_RO_bounds |-> st.module_RO_bounds,
          lar_detector_bounds |-> lar,
          cathode_thickness |-> CathodeThickness(d, lar, d.drift_length * cm)] :
        lar \in {LarDetectorBounds(st.module_RO_bounds)}})

\* variant setting the two scalars before the multitile_layout_version check
FieldsBeforeLoopScalarsFirst(d, err) ==
    IF err = "RuntimeError"
    THEN [err |-> err, pixel_pitch |-> d.pixel_pitch,
          max_drift_distance |-> d.drift_length * cm]
    ELSE [err |-> err,
          pixel_pitch |-> d.pixel_pitch,
          max_drift_distance |-> d.drift_length * cm,
          pixel_coordinates_2D |-> LUT("f4", pixel_coordinates_2D_min_max(d), <<0, 0>>),
          tile_id |-> LUT("i4", tile_min_max(d), -1),
          anode_drift_coordinate |->
              IF AnodeListError(d) # "none" THEN LUT("f4", anode_min_max(d), 0)
              ELSE anode_drift_coordinate_built(d),
          drift_dir |-> LUT("i1", anode_min_max(d), 0)]

\* the fields set when an error ends the build before the module loop:
\* none before the multitile_layout_version check; afterwards the two
\* scalars and the four allocated tables, the anode table written if the
\* error comes from the list of drift directions
FieldsBeforeLoop(d, err) ==
    IF err = "RuntimeError" THEN [err |-> err]
    ELSE [err |-> err,
          pixel_pitch |-> d.pixel_pitch,
          max_drift_distance |-> d.drift_length * cm,
          pixel_coordinates_2D |-> LUT("f4", pixel_coordinates_2D_min_max(d), <<0, 0>>),
          tile_id |-> LUT("i4", tile_min_max(d), -1),
          anode_drift_coordinate |->
              IF AnodeListError(d) # "none" THEN LUT("f4", anode_min_max(d), 0)
              ELSE anode_drift_coordinate_built(d),
          drift_dir |-> LUT("i1", anode_min_max(d), 0)]
\* the fields set when an error ends the build in the module loop
FieldsInLoop(d, anode, st) ==
    [err |-> st.err,
     pixel_pitch |-> d.pixel_pitch,
     max_drift_distance |-> d.drift_length * cm,
     pixel_coordinates_2D |-> st.pixel_coordinates_2D,
     tile_id |-> st.tile_id,
     anode_drift_coordinate |-> anode,
     drift_dir |-> drift_dir_built(d),
     module_RO_bounds |-> st.module_RO_bounds]

\* Geometry._load_charge_geometry: the fields it sets and the error that
\* ends it, oor being what an access outside a table's ranges does
load_charge_geometry(d, oor) ==
    The({IF err # "none" THEN FieldsBeforeLoop(d, err)
         ELSE The({The({IF st.err # "none" THEN FieldsInLoop(d, anode, st)
                        ELSE ChargeFields(d, anode, st) :
                     st \in {ModuleLoop(d, anode, Min(DOMAIN d.module_to_io_groups),
                                [tile_id |-> LUT("i4", tile_min_max(d), -1),
                                 pixel_coordinates_2D |->
                                     LUT("f4", pixel_coordinates_2D_min_max(d), <<0, 0>>),
                                 module_RO_bounds |-> <<>>,
                                 err |-> "none"], oor)}}) :
                 anode \in {anode_drift_coordinate_built(d)}}) :
        err \in {charge_geometry_error(d)}})

(***************************************************************************)
(* Geometry._load_light_geometry                                           *)
(***************************************************************************)
\* proto_nd_flow.util.compat.assert_compat_version: TRUE when it passes
compat_version(version, target) == version = target

\* the populated entries of det_chan (det_chan_mask): (tpc, det, slot) with a
\* channel listed in that slot and different from -1
LightEntries(d) ==
    {e \in (DOMAIN d.tpc_center) \X (DOMAIN d.det_center) \X
           (1..Max({Len(c) : c \in UNION {Range(d.det_chan[t]) : t \in DOMAIN d.det_chan}})) :
        /\ e[3] <= Len(d.det_chan[e[1]][e[2]])
        /\ d.det_chan[e[1]][e[2]][e[3]] # -1}

\* variant keyed by the slot of the channel in the detector's list
LightKeyBySlot(d, e) == <<d.det_adc[e[1]][e[2]], e[3] - 1>>

LightKey(d, e) == <<d.det_adc[e[1]][e[2]], d.det_chan[e[1]][e[2]][e[3]]>>

adc_chan_min_max(d) ==
    <<MinMax({LightKey(d, e)[1] : e \in LightEntries(d)}),
      MinMax({LightKey(d, e)[2] : e \in LightEntries(d)})>>
det_min_max(d) ==
    <<MinMax({e[1] : e \in LightEntries(d)}), MinMax({e[2] : e \in LightEntries(d)})>>

\* of the entries written to one key, the last in (tpc, det, slot) order
LastEntry(E) ==
    The({(CHOOSE e \in T : \A f \in T :
            \/ f[1] < e[1]
            \/ f[1] = e[1] /\ f[2] < e[2]
            \/ f[1] = e[1] /\ f[2] = e[2] /\ f[3] <= e[3]) : T \in {E}})

Vec3Add(a, b, c) == [i \in 1..3 |-> a[i] + b[i] + c[i]]

\* the world-frame box of detector det in TPC tpc
DetBox(d, tpc, det) ==
    <<Vec3Add(d.tpc_center[tpc], d.det_center[det], d.geom[d.det_geom[det]].min),
      Vec3Add(d.tpc_center[tpc], d.det_center[det], d.geom[d.det_geom[det]].max)>>

\* the tables written from the populated entries E
LightTables(d, E) ==
    The({[err |-> "none",
          tpc_id |-> lut_set(LUT("i4", adc_chan_min_max(d), -1),
                             {<<LightKey(d, e), e[1]>> : e \in last}),
          det_id |-> lut_set(LUT("i4", adc_chan_min_max(d), -1),
                             {<<LightKey(d, e), e[2]>> : e \in last}),
          det_bounds |->
              lut_set(LUT("f4", det_min_max(d), <<<<0, 0, 0>>, <<0, 0, 0>>>>),
                      {<<k, DetBox(d, k[1], k[2])>> : k \in first_slot})] :
        last \in {{LastEntry({f \in E : LightKey(d, f) = LightKey(d, e)}) : e \in E}},
        first_slot \in {{<<e[1], e[2]>> : e \in {f \in E : f[3] = 1}}}})

load_light_geometry(d) ==
    IF ~compat_version(d.format_version, "0.0.0") THEN [err |-> "IncompatibleVersion"]
    ELSE The({LightTables(d, E) : E \in {LightEntries(d)}})

(***************************************************************************)
(* Geometry.load_geometry: the charge build, then the light build.  The    *)
(* result holds the fields that were set and the error that aborted it.    *)
(***************************************************************************)
FieldsSet(charge, light) ==
    IF charge.err # "none"
    THEN [err |-> charge.err,
          set |-> [f \in (DOMAIN charge) \ {"err"} |-> charge[f]]]
    ELSE IF light.err # "none"
    THEN [err |-> light.err,
          set |-> [f \in (DOMAIN charge) \ {"err"} |-> charge[f]]]
    ELSE [err |-> "none",
          set |-> [f \in ((DOMAIN charge) \cup (DOMAIN light)) \ {"err"} |->
                      IF f \in DOMAIN charge THEN charge[f] ELSE light[f]]]
load_geometry(d, oor) ==
    The({FieldsSet(charge, light) :
        charge \in {load_charge_geometry(d, oor)}, light \in {load_light_geometry(d)}})

(***************************************************************************)
(* Geometry.in_fid                                                         *)
(***************************************************************************)
\* variant writing the maximum x from the minimum x the array held before
drift_regions_from_old_min(module_RO_bounds, max_drift_distance) ==
    [i \in 1..Len(module_RO_bounds) |->
        LET lo_x == module_RO_bounds[i][2][1] - max_drift_distance
            hi_x == module_RO_bounds[i][1][1] + max_drift_distance
        IN  <<<<lo_x, module_RO_bounds[i][1][2], module_RO_bounds[i][1][3]>>,
              <<hi_x, module_RO_bounds[i][2][2], module_RO_bounds[i][2][3]>>>>]

\* positive_drift_regions and negative_drift_regions are both the array
\* module_RO_bounds itself: the loop writes into that one array, first the
\* minimum x from the maximum x, then the maximum x from the new minimum x
drift_regions(module_RO_bounds, max_drift_distance) ==
    [i \in 1..Len(module_RO_bounds) |->
        LET lo_x == module_RO_bounds[i][2][1] - max_drift_distance
            hi_x == lo_x + max_drift_distance
        IN  <<<<lo_x, module_RO_bounds[i][1][2], module_RO_bounds[i][1][3]>>,
              <<hi_x, module_RO_bounds[i][2][2], module_RO_bounds[i][2][3]>>>>]

\* variants with a margin applied in the opposite sense, on the lower and on
\* the upper face
in_shrunk_box_lower_sign(xyz, boundary, fid) ==
    \A a \in 1..3 : /\ xyz[a] < boundary[2][a] - fid[2][a]
                    /\ xyz[a] > boundary[1][a] - fid[1][a]
in_shrunk_box_upper_sign(xyz, boundary, fid) ==
    \A a \in 1..3 : /\ xyz[a] < boundary[2][a] + fid[2][a]
                    /\ xyz[a] > boundary[1][a] + fid[1][a]

\* (xyz < boundary[1] - fid[1]) & (xyz > boundary[0] + fid[0]), on all axes
in_shrunk_box(xyz, boundary, fid) ==
    \A a \in 1..3 : /\ xyz[a] < boundary[2][a] - fid[2][a]
                    /\ xyz[a] > boundary[1][a] + fid[1][a]

\* in_fid for one point: the boolean returned and module_RO_bounds as the
\* call leaves it
in_fid(module_RO_bounds, max_drift_distance, xyz, cathode_fid, field_cage_fid, anode_fid) ==
    LET fid_cathode == <<cathode_fid, field_cage_fid, field_cage_fid>>
        fid_anode == <<anode_fid, field_cage_fid, field_cage_fid>>
        regions == drift_regions(module_RO_bounds, max_drift_distance)
        positive_drift_regions == regions
        negative_drift_regions == regions
        fid_positive_drift == <<fid_cathode, fid_anode>>
        fid_negative_drift == <<fid_anode, fid_cathode>>
        in_any_positive_fid ==
            \E i \in 1..Len(regions) :
                in_shrunk_box(xyz, positive_drift_regions[i], fid_positive_drift)
        in_any_negative_fid ==
            \E i \in 1..Len(regions) :
                in_shrunk_box(xyz, negative_drift_regions[i], fid_negative_drift)
    IN  [result |-> in_any_positive_fid \/ in_any_negative_fid,
         module_RO_bounds |-> regions]

(***************************************************************************)
(* Geometry.get_drift_coordinate, for a key inside the ranges of the       *)
(* tile-id table: the set of outcomes of the call.  A tile id inside the   *)
(* ranges of the two tile tables gives one outcome; the default tile id -1 *)
(* of an unmapped key lies outside them.                                   *)
(***************************************************************************)
\* variant drifting against the stored direction
get_drift_coordinate_opposite(tile_id, anode_drift_coordinate, drift_dir, io_group, io_channel, drift) ==
    LET t == <<lut_get(tile_id, <<io_group, io_channel>>)>>
    IN  {IF InRange(anode_drift_coordinate, t) /\ InRange(drift_dir, t)
         THEN [err |-> "none",
               val |-> lut_get(anode_drift_coordinate, t) - lut_get(drift_dir, t) * drift]
         ELSE [err |-> "IndexError"]}

get_drift_coordinate(tile_id, anode_drift_coordinate, drift_dir, io_group, io_channel, drift) ==
    LET t == <<lut_get(tile_id, <<io_group, io_channel>>)>>
        anode_drift_coord ==
            IF InRange(anode_drift_coordinate, t)
            THEN {[err |-> "none", val |-> lut_get(anode_drift_coordinate, t)]}
            ELSE lut_get_out_of_range(anode_drift_coordinate, t)
        drift_direction ==
            IF InRange(drift_dir, t)
            THEN {[err |-> "none", val |-> lut_get(drift_dir, t)]}
            ELSE lut_get_out_of_range(drift_dir, t)
    IN  {IF a.err # "none" THEN [err |-> a.err]
         ELSE IF b.err # "none" THEN [err |-> b.err]
         ELSE [err |-> "none", val |-> a.val + b.val * drift] :
            a \in anode_drift_coord, b \in drift_direction}

(***************************************************************************)
(* Geometry._rect_solid_angle_sign and Geometry.solid_angle                *)
(***************************************************************************)
\* variant taking the edge farther from the coordinate for the nearer one
rect_solid_angle_sign_farther(coord, rect_min, rect_max) ==
    LET overlapping == IF coord >= rect_min /\ coord <= rect_max THEN 1 ELSE 0
        inverted == IF Abs(rect_min - coord) > Abs(rect_max - coord) THEN 1 ELSE 0
    IN  <<overlapping + (1 - overlapping) * (1 - 2 * inverted),
          overlapping + (1 - overlapping) * (2 * inverted - 1)>>

rect_solid_angle_sign(coord, rect_min, rect_max) ==
    LET overlapping == IF coord >= rect_min /\ coord <= rect_max THEN 1 ELSE 0
        inverted == IF Abs(rect_min - coord) < Abs(rect_max - coord) THEN 1 ELSE 0
    IN  <<overlapping + (1 - overlapping) * (1 - 2 * inverted),
          overlapping + (1 - overlapping) * (2 * inverted - 1)>>

\* variant taking the lower x bound of the detector for its plane
solid_angle_terms_at_min_x(det_bounds, xyz, tpc_id, det_id) ==
    LET b == lut_get(det_bounds, <<tpc_id, det_id>>)
        det_min == b[1]
        det_max == b[2]
        det_x == det_min[1]
        ysign == rect_solid_angle_sign(xyz[2], det_min[2], det_max[2])
        zsign == rect_solid_angle_sign(xyz[3], det_min[3], det_max[3])
        term(det_y, det_y_sign, det_z, det_z_sign) ==
            [sign |-> det_y_sign * det_z_sign,
             num |-> Abs(det_y - xyz[2]) * Abs(det_z - xyz[3]),
             dx |-> Abs(det_x - xyz[1]),
             dsq |-> (xyz[1] - det_x) * (xyz[1] - det_x)
                     + (xyz[2] - det_y) * (xyz[2] - det_y)
                     + (xyz[3] - det_z) * (xyz[3] - det_z)]
    IN  <<term(det_max[2], ysign[2], det_max[3], zsign[2]),
          term(det_max[2], ysign[2], det_min[3], zsign[1]),
          term(det_min[2], ysign[1], det_max[3], zsign[2]),
          term(det_min[2], ysign[1], det_min[3], zsign[1])>>

\* omega for one point and one detector, as its four corner terms in loop
\* order: each term is sign * arctan2(num, dx * sqrt(dsq)).  det_x is the
\* midpoint of the x bounds (their sum is even in the layouts used here).
solid_angle_terms(det_bounds, xyz, tpc_id, det_id) ==
    LET b == lut_get(det_bounds, <<tpc_id, det_id>>)
        det_min == b[1]
        det_max == b[2]
        det_x == (det_min[1] + det_max[1]) \div 2
        ysign == rect_solid_angle_sign(xyz[2], det_min[2], det_max[2])
        zsign == rect_solid_angle_sign(xyz[3], det_min[3], det_max[3])
        term(det_y, det_y_sign, det_z, det_z_sign) ==
            [sign |-> det_y_sign * det_z_sign,
             num |-> Abs(det_y - xyz[2]) * Abs(det_z - xyz[3]),
             dx |-> Abs(det_x - xyz[1]),
             dsq |-> (xyz[1] - det_x) * (xyz[1] - det_x)
                     + (xyz[2] - det_y) * (xyz[2] - det_y)
                     + (xyz[3] - det_z) * (xyz[3] - det_z)]
    IN  <<term(det_max[2], ysign[2], det_max[3], zsign[2]),
          term(det_max[2], ysign[2], det_min[3], zsign[1]),
          term(det_min[2], ysign[1], det_max[3], zsign[2]),
          term(det_min[2], ysign[1], det_min[3], zsign[1])>>

\* np.arctan2(num, dx * d) of a corner term, where its value is an exact
\* multiple of pi/2: num >= 0 and dx * d >= 0 (absolute values and a square
\* root), and d = sqrt(dsq) is 0 exactly when dsq is.  quarter_turns is the
\* value in units of pi/2: arctan2(positive, 0) = pi/2, arctan2(0, 0) = 0
\* and arctan2(0, positive) = 0; any other value lies strictly between 0
\* and pi/2 and is left open (exact FALSE).
arctan2(t) ==
    LET den_zero == t.dx = 0 \/ t.dsq = 0
    IN  IF den_zero /\ t.num > 0 THEN [exact |-> TRUE, quarter_turns |-> 1]
        ELSE IF t.num = 0 THEN [exact |-> TRUE, quarter_turns |-> 0]
        ELSE [exact |-> FALSE, quarter_turns |-> 0]
\* omega after the two loops: the sum over the four corner terms of
\* sign * arctan2(...), in units of pi/2 where every term is exact
omega_sum(terms) ==
    LET a == [k \in 1..4 |-> arctan2(terms[k])]
    IN  [exact |-> \A k \in 1..4 : a[k].exact,
         quarter_turns |-> terms[1].sign * a[1].quarter_turns
                           + terms[2].sign * a[2].quarter_turns
                           + terms[3].sign * a[3].quarter_turns
                           + terms[4].sign * a[4].quarter_turns]

\* the shape numpy gives the result of an elementwise operation on arrays
\* of shapes a and b: the shapes are aligned at their last axis, a missing
\* axis or an axis of length 1 is stretched to the other's length
BroadcastShape(a, b) ==
    LET n == Max({Len(a), Len(b)})
        ext(s, i) == IF i <= n - Len(s) THEN 1 ELSE s[i - (n - Len(s))]
    IN  [i \in 1..n |-> Max({ext(a, i), ext(b, i)})]
\* the index into an array of shape s that a result index reads
BroadcastIndex(s, idx) ==
    [i \in 1..Len(s) |-> IF s[i] = 1 THEN 1 ELSE idx[i + (Len(idx) - Len(s))]]
\* the indices of an array of a shape (of up to three axes)
Indices(shape) ==
    IF Len(shape) = 2 THEN (1..shape[1]) \X (1..shape[2])
    ELSE (1..shape[1]) \X (1..shape[2]) \X (1..shape[3])

\* Geometry.solid_angle for N points and M detectors: x, y, z are xyz's
\* columns with two axes of length 1 appended (shape (N, 1, 1)), the
\* detector bounds are looked up for the M pairs and given a leading axis
\* of length 1 (shape (1, M)); omega has the broadcast shape and holds, at
\* each index, the corner terms of the point and the detector read there
solid_angle(det_bounds, xyz, tpc_id, det_id) ==
    LET x_shape == <<Len(xyz), 1, 1>>
        det_shape == <<1, Len(tpc_id)>>
        shape == BroadcastShape(x_shape, det_shape)
    IN  [shape |-> shape,
         omega |-> [i \in Indices(shape) |->
                      solid_angle_terms(det_bounds,
                                        xyz[BroadcastIndex(x_shape, i)[1]],
                                        tpc_id[BroadcastIndex(det_shape, i)[2]],
                                        det_id[BroadcastIndex(det_shape, i)[2]])]]

(***************************************************************************)
(* The store (the data manager's group at self.path) and write_lut /       *)
(* read_lut of proto_nd_flow.util.lut.                                     *)
(***************************************************************************)
\* the lookup tables in the order init writes and reads them
LutNames ==
    <<"pixel_coordinates_2D", "tile_id", "anode_drift_coordinate", "drift_dir",
      "tpc_id", "det_id", "det_bounds">>
ScalarFields ==
    {"pixel_pitch", "cathode_thickness", "lar_detector_bounds",
     "module_RO_bounds", "max_drift_distance"}
Fields == ScalarFields \cup Range(LutNames)

EmptyMap == [n \in {} |-> 0]

\* a table as write_lut persists it: (ranges, dtype, default, dense array)
lut_serialize(lut) ==
    [ranges |-> lut.min_max_keys, dtype |-> lut.dtype,
     default |-> lut.default, array |-> lut.data]
\* the table read_lut rebuilds
lut_deserialize(ser) ==
    [dtype |-> ser.dtype, min_max_keys |-> ser.ranges,
     default |-> ser.default, data |-> ser.array]

\* data_manager.set_attrs(path, **attrs): create the group, update its attributes
set_attrs(st, attrs) ==
    [st EXCEPT !.group = TRUE,
               !.attrs = [n \in (DOMAIN attrs) \cup (DOMAIN st.attrs) |->
                             IF n \in DOMAIN attrs THEN attrs[n] ELSE st.attrs[n]]]
\* write_lut(data_manager, path, lut, name)
write_lut(st, lut, name) ==
    [st EXCEPT !.luts = [n \in {name} \cup (DOMAIN st.luts) |->
                            IF n = name THEN lut_serialize(lut) ELSE st.luts[n]]]

(***************************************************************************)
(* State.                                                                  *)
(***************************************************************************)
VARIABLES
    lut_oor,    \* what a table does, in this run's builds, with a key outside its ranges
    files,      \* files[p]: the description files process p was configured with
    store,      \* the shared store: group, attributes, persisted tables
    pc,         \* pc[p]: where process p is in init
    idx,        \* idx[p]: the next table of LutNames to write or read
    data,       \* data[p]: self.data, the attributes read by get_attrs
    geom,       \* geom[p]: the fields of the Geometry object of process p
    path,       \* path[p]: "build" or "load", the branch init took
    opened,     \* opened[p]: description files opened by process p
    wrote,      \* wrote[p]: store writes with content made by process p
    error,      \* error[p]: the exception that ended init of process p
    at_init,    \* at_init[p]: geom[p] as it was when init returned
    ret         \* the last query call: its arguments and what it returned

vars == <<lut_oor, files, store, pc, idx, data, geom, path, opened, wrote, error, at_init, ret>>

class_version == "0.1.0"

\* Geometry.__init__
NewGeometry ==
    [f \in Fields |->
        CASE f = "cathode_thickness" -> 0
          [] f \in {"lar_detector_bounds", "module_RO_bounds", "max_drift_distance"} -> "None"
          [] OTHER -> "unset"]

\* description files load_geometry opens before it ends: the two charge
\* documents, then the light document if the charge build ran through
FilesOpened(r) ==
    IF r.err \in {"none", "IncompatibleVersion"} THEN 3 ELSE 2

\* load_geometry on each of the file sets, under each outcome of an access
\* outside a table's ranges, evaluated once: what it sets, the error that
\* ends it, the files it opens
Builds ==
    {The({[files |-> fo[1], oor |-> fo[2], r |-> r, opened |-> FilesOpened(r)] :
            r \in {load_geometry(ReadFiles(fo[1]), fo[2])}}) :
        fo \in FileSets \X OutOfRangeOutcomes}
BuildOf(f, oor) == CHOOSE b \in Builds : b.files = f /\ b.oor = oor

\* the outcomes of an access outside a table's ranges that the builds of a
\* layout tell apart: where no build makes such an access, one stands for all
OutcomesThatDiffer(layout) ==
    {o \in OutOfRangeOutcomes :
        \/ o = "IndexError"
        \/ \E f \in FileSets :
              /\ f.layout = layout
              /\ BuildOf(f, o).r # BuildOf(f, "IndexError").r}

\* the processes of one run describe the same detector; each process's
\* files may be well-formed or not
Init ==
    /\ \E dl \in DriftLengths, l \in Layouts :
          files \in [Procs -> {f \in FileSets : f.drift_length = dl /\ f.layout = l}]
    /\ lut_oor \in OutcomesThatDiffer(files[1].layout)
    /\ store = [group |-> FALSE, attrs |-> EmptyMap, luts |-> EmptyMap]
    /\ pc = [p \in Procs |-> "start"]
    /\ idx = [p \in Procs |-> 1]
    /\ data = [p \in Procs |-> EmptyMap]
    /\ geom = [p \in Procs |-> NewGeometry]
    /\ path = [p \in Procs |-> "none"]
    /\ opened = [p \in Procs |-> 0]
    /\ wrote = [p \in Procs |-> 0]
    /\ error = [p \in Procs |-> "none"]
    /\ at_init = [p \in Procs |-> NewGeometry]
    /\ ret = [op |-> "none"]

(***************************************************************************)
(* Geometry.init, one action per access to the store.                      *)
(***************************************************************************)
\* self.data_manager.set_attrs(self.path): create the group (if not present)
InitCreateGroup(p) ==
    /\ pc[p] = "start"
    /\ store' = set_attrs(store, EmptyMap)
    /\ pc' = [pc EXCEPT ![p] = "get_attrs"]
    /\ UNCHANGED <<lut_oor, files, idx, data, geom, path, opened, wrote, error, at_init, ret>>

\* self.data = dict(get_attrs(self.path)); if not self.data: ... else: ...
InitGetAttrs(p) ==
    /\ pc[p] = "get_attrs"
    /\ data' = [data EXCEPT ![p] = store.attrs]
    /\ path' = [path EXCEPT ![p] = IF DOMAIN store.attrs = {} THEN "build" ELSE "load"]
    /\ pc' = [pc EXCEPT ![p] = IF DOMAIN store.attrs = {} THEN "load_geometry"
                               ELSE "load_attrs"]
    /\ UNCHANGED <<lut_oor, files, store, idx, geom, opened, wrote, error, at_init, ret>>

\* the attributes init persists after the build
PersistedAttrs(g) ==
    [classname |-> "Geometry",
     class_version |-> class_version,
     pixel_pitch |-> g.pixel_pitch,
     cathode_thickness |-> g.cathode_thickness,
     lar_detector_bounds |-> g.lar_detector_bounds,
     module_RO_bounds |-> g.module_RO_bounds,
     max_drift_distance |-> g.max_drift_distance,
     crs_geometry_file |-> "crs_geometry_file",
     beam_direction |-> "z",
     drift_direction |-> "x"]

\* variant persisting the attributes before the build has run through
InitLoadGeometryPersistFirst(p) ==
    /\ pc[p] = "load_geometry"
    /\ store' = set_attrs(store, PersistedAttrs(geom[p]))
    /\ wrote' = [wrote EXCEPT ![p] = @ + 1]
    /\ LET b == BuildOf(files[p], lut_oor)
           r == b.r
       IN  /\ geom' = [geom EXCEPT ![p] =
                         [f \in Fields |-> IF f \in DOMAIN r.set THEN r.set[f] ELSE @[f]]]
           /\ error' = [error EXCEPT ![p] = r.err]
           /\ pc' = [pc EXCEPT ![p] = IF r.err = "none" THEN "set_attrs" ELSE "failed"]
           /\ opened' = [opened EXCEPT ![p] = @ + b.opened]
    /\ UNCHANGED <<lut_oor, files, idx, data, path, at_init, ret>>

\* self.load_geometry()
InitLoadGeometry(p) ==
    /\ pc[p] = "load_geometry"
    /\ LET b == BuildOf(files[p], lut_oor)
           r == b.r
       IN  /\ geom' = [geom EXCEPT ![p] =
                         [f \in Fields |-> IF f \in DOMAIN r.set THEN r.set[f] ELSE @[f]]]
           /\ error' = [error EXCEPT ![p] = r.err]
           /\ pc' = [pc EXCEPT ![p] = IF r.err = "none" THEN "set_attrs" ELSE "failed"]
           /\ opened' = [opened EXCEPT ![p] = @ + b.opened]
    /\ UNCHANGED <<lut_oor, files, store, idx, data, path, wrote, at_init, ret>>

\* self.data_manager.set_attrs(self.path, classname=..., ...)
InitSetAttrs(p) ==
    /\ pc[p] = "set_attrs"
    /\ store' = set_attrs(store, PersistedAttrs(geom[p]))
    /\ wrote' = [wrote EXCEPT ![p] = @ + 1]
    /\ pc' = [pc EXCEPT ![p] = "write_lut"]
    /\ idx' = [idx EXCEPT ![p] = 1]
    /\ UNCHANGED <<lut_oor, files, data, geom, path, opened, error, at_init, ret>>

\* the next write_lut(self.data_manager, self.path, self.<name>, '<name>')
InitWriteLut(p) ==
    /\ pc[p] = "write_lut"
    /\ store' = write_lut(store, geom[p][LutNames[idx[p]]], LutNames[idx[p]])
    /\ wrote' = [wrote EXCEPT ![p] = @ + 1]
    /\ idx' = [idx EXCEPT ![p] = @ + 1]
    /\ pc' = [pc EXCEPT ![p] = IF idx[p] = Len(LutNames) THEN "done" ELSE "write_lut"]
    /\ at_init' = [at_init EXCEPT ![p] = IF idx[p] = Len(LutNames) THEN geom[p] ELSE @]
    /\ UNCHANGED <<lut_oor, files, data, geom, path, opened, error, ret>>

\* variant leaving cathode_thickness as the constructor set it
LoadedScalarsNoCathode(g, attrs) ==
    [f \in Fields |-> IF f \in ScalarFields \ {"cathode_thickness"} THEN attrs[f] ELSE g[f]]

\* the scalar fields the load branch takes from self.data
LoadedScalars(g, attrs) ==
    [f \in Fields |-> IF f \in ScalarFields THEN attrs[f] ELSE g[f]]

\* assert_compat_version(self.class_version, self.data['class_version']) and
\* the assignments from self.data
InitLoadAttrs(p) ==
    /\ pc[p] = "load_attrs"
    /\ IF compat_version(class_version, data[p].class_version)
       THEN /\ geom' = [geom EXCEPT ![p] = LoadedScalars(@, data[p])]
            /\ pc' = [pc EXCEPT ![p] = "read_lut"]
            /\ error' = error
       ELSE /\ geom' = geom
            /\ pc' = [pc EXCEPT ![p] = "failed"]
            /\ error' = [error EXCEPT ![p] = "IncompatibleVersion"]
    /\ idx' = [idx EXCEPT ![p] = 1]
    /\ UNCHANGED <<lut_oor, files, store, data, path, opened, wrote, at_init, ret>>

\* variant assigning the two light id tables to each other's field
LoadTargetSwapped(name) ==
    CASE name = "tpc_id" -> "det_id"
      [] name = "det_id" -> "tpc_id"
      [] OTHER -> name

\* the field a table read under a name is assigned to
LoadTarget(name) == name

\* the next self._<name> = read_lut(self.data_manager, self.path, '<name>')
InitReadLut(p) ==
    /\ pc[p] = "read_lut"
    /\ LET name == LutNames[idx[p]]
       IN  IF name \in DOMAIN store.luts
           THEN /\ geom' = [geom EXCEPT ![p][LoadTarget(name)] =
                               lut_deserialize(store.luts[name])]
                /\ pc' = [pc EXCEPT ![p] = IF idx[p] = Len(LutNames) THEN "done"
                                           ELSE "read_lut"]
                /\ at_init' = [at_init EXCEPT ![p] =
                                  IF idx[p] = Len(LutNames) THEN geom'[p] ELSE @]
                /\ idx' = [idx EXCEPT ![p] = @ + 1]
                /\ error' = error
           ELSE /\ pc' = [pc EXCEPT ![p] = "failed"]
                /\ error' = [error EXCEPT ![p] = "KeyError"]
                /\ UNCHANGED <<geom, at_init, idx>>
    /\ UNCHANGED <<lut_oor, files, store, data, path, opened, wrote, ret>>

(***************************************************************************)
(* The queries, called on a Geometry whose init has returned.              *)
(***************************************************************************)
\* points given to in_fid: a scan in x through the faces and the drift
\* sub-boxes of the modules of the layouts above, interior, near-face and
\* face points in y and z at two of them, and two points on three faces
Points ==
    ({-70, -60, -30, -29, -11, -10, 0, 60} \X {0} \X {0})
        \cup ({-29, 60} \X {0, 13, 14} \X {0, 6})
        \cup ({-70, -10} \X {14} \X {6})
Margins == 0..MaxMargin

\* keys given to get_drift_coordinate, all inside the tile-id table's ranges:
\* io_group 0 is mapped to no tile
IoGroupArgs == {0, 1, 2, 4}
IoChannelArgs == {1, 8}

\* points and detectors given to solid_angle
LightPoints ==
    ({-20, 0} \X {-8, 0} \X {0, 10})
        \cup {<<-20, -5, -3>>, <<-20, 8, 0>>, <<20, -8, 5>>, <<20, 9, -5>>,
              <<-20, -4, 0>>}
TpcArgs == {0, 1}
DetArgs == {0, 1}
\* the xyz arrays (N points) and the (tpc_id, det_id) arrays (M detectors)
LightPointLists ==
    {<<xyz>> : xyz \in LightPoints}
        \cup {<< <<-20, -8, 0>>, <<0, 0, 10>> >>, << <<0, 0, 10>>, <<20, 9, -5>> >>}
DetectorLists ==
    {<< <<tpc, det>> >> : tpc \in TpcArgs, det \in DetArgs}
        \cup {<< <<0, 0>>, <<1, 1>> >>}

\* in_fid writes the drift regions into self._module_RO_bounds in place; after
\* the load branch of init that array is the one held in
\* self.data['module_RO_bounds'], so the entry of self.data changes with it
InFid(p) ==
    /\ pc[p] = "done"
    /\ \E xyz \in Points, cathode_fid \in Margins, field_cage_fid \in Margins,
          anode_fid \in Margins :
          LET r == in_fid(geom[p].module_RO_bounds, geom[p].max_drift_distance,
                          xyz, cathode_fid, field_cage_fid, anode_fid)
          IN  /\ geom' = [geom EXCEPT ![p].module_RO_bounds = r.module_RO_bounds]
              /\ data' = IF path[p] = "load"
                         THEN [data EXCEPT ![p].module_RO_bounds = r.module_RO_bounds]
                         ELSE data
              /\ ret' = [op |-> "in_fid", proc |-> p, xyz |-> xyz,
                         cathode_fid |-> cathode_fid,
                         field_cage_fid |-> field_cage_fid,
                         anode_fid |-> anode_fid, result |-> r.result]
    /\ UNCHANGED <<lut_oor, files, store, pc, idx, path, opened, wrote, error, at_init>>

GetDriftCoordinate(p) ==
    /\ pc[p] = "done"
    /\ \E io_group \in IoGroupArgs, io_channel \in IoChannelArgs, drift \in 0..MaxDrift :
          \E o \in get_drift_coordinate(geom[p].tile_id, geom[p].anode_drift_coordinate,
                                        geom[p].drift_dir, io_group, io_channel, drift) :
              ret' = [op |-> "get_drift_coordinate", proc |-> p,
                      io_group |-> io_group, io_channel |-> io_channel,
                      drift |-> drift, out |-> o]
    /\ UNCHANGED <<lut_oor, files, store, pc, idx, data, geom, path, opened, wrote, error, at_init>>

SolidAngle(p) ==
    /\ pc[p] = "done"
    /\ \E xyz \in LightPointLists, dets \in DetectorLists :
          LET tpc_id == [m \in 1..Len(dets) |-> dets[m][1]]
              det_id == [m \in 1..Len(dets) |-> dets[m][2]]
          IN  ret' = [op |-> "solid_angle", proc |-> p, xyz |-> xyz,
                      tpc_id |-> tpc_id, det_id |-> det_id,
                      out |-> solid_angle(geom[p].det_bounds, xyz, tpc_id, det_id)]
    /\ UNCHANGED <<lut_oor, files, store, pc, idx, data, geom, path, opened, wrote, error, at_init>>

(***************************************************************************)
(* Spec: the processes of a run execute init on the shared store, in any   *)
(* interleaving of their accesses to it.                                   *)
(***************************************************************************)
Next ==
    \E p \in Procs :
        \/ InitCreateGroup(p)
        \/ InitGetAttrs(p)
        \/ InitLoadGeometry(p)
        \/ InitSetAttrs(p)
        \/ InitWriteLut(p)
        \/ InitLoadAttrs(p)
        \/ InitReadLut(p)

Spec == Init /\ [][Next]_vars

(***************************************************************************)
(* QuerySpec and LoadedQuerySpec: the queries on one Geometry after its    *)
(* init has returned.  They start where init leaves process 1 when it runs *)
(* alone with well-formed files (the state InitReturned describes).  In    *)
(* QuerySpec it has run on an empty store, and has built and persisted the *)
(* geometry; in LoadedQuerySpec it has run on the store an earlier build   *)
(* of the same files has persisted, and has loaded the geometry.  Every    *)
(* step is a query call of that process.                                   *)
(***************************************************************************)
WellFormed(f) == f \in {StdFiles(dl) : dl \in DriftLengths}

\* the fields load_geometry sets from well-formed files
BuiltGeometry(f) == [n \in Fields |-> BuildOf(f, "IndexError").r.set[n]]

\* the store after init has built and persisted a geometry
PersistedStore(g) ==
    [group |-> TRUE,
     attrs |-> PersistedAttrs(g),
     luts |-> [n \in Range(LutNames) |-> lut_serialize(g[n])]]

\* the fields the load branch of init assigns from a store
LoadedGeometry(st) ==
    [f \in Fields |->
        IF f \in ScalarFields THEN LoadedScalars(NewGeometry, st.attrs)[f]
        ELSE lut_deserialize(st.luts[f])]

InitReturned ==
    /\ pc = [p \in Procs |-> IF p = 1 THEN "done" ELSE "start"]
    /\ \A p \in Procs : files[p] = files[1]
    /\ WellFormed(files[1])
    /\ store = PersistedStore(BuiltGeometry(files[1]))
    /\ idx = [p \in Procs |-> IF p = 1 THEN Len(LutNames) + 1 ELSE 1]
    /\ path[1] \in {"build", "load"}
    /\ \A p \in Procs \ {1} : path[p] = "none"
    /\ data = [p \in Procs |-> IF path[p] = "load" THEN store.attrs ELSE EmptyMap]
    /\ geom = [p \in Procs |->
                 CASE path[p] = "build" -> BuiltGeometry(files[1])
                   [] path[p] = "load" -> LoadedGeometry(store)
                   [] OTHER -> NewGeometry]
    /\ opened = [p \in Procs |-> IF path[p] = "build" THEN 3 ELSE 0]
    /\ wrote = [p \in Procs |-> IF path[p] = "build" THEN Len(LutNames) + 1 ELSE 0]
    /\ error = [p \in Procs |-> "none"]
    /\ at_init = geom
    /\ ret = [op |-> "none"]

QueryInitAfter(branch) ==
    /\ \E f \in {g \in FileSets : WellFormed(g)} : files = [p \in Procs |-> f]
    /\ lut_oor = "IndexError"
    /\ store = The({PersistedStore(g) : g \in {BuiltGeometry(files[1])}})
    /\ path = [p \in Procs |-> IF p = 1 THEN branch ELSE "none"]
    /\ geom = [p \in Procs |->
                 CASE path[p] = "build" -> BuiltGeometry(files[1])
                   [] path[p] = "load" -> LoadedGeometry(store)
                   [] OTHER -> NewGeometry]
    /\ pc = [p \in Procs |-> IF p = 1 THEN "done" ELSE "start"]
    /\ idx = [p \in Procs |-> IF p = 1 THEN Len(LutNames) + 1 ELSE 1]
    /\ data = [p \in Procs |-> IF path[p] = "load" THEN store.attrs ELSE EmptyMap]
    /\ opened = [p \in Procs |-> IF path[p] = "build" THEN 3 ELSE 0]
    /\ wrote = [p \in Procs |-> IF path[p] = "build" THEN Len(LutNames) + 1 ELSE 0]
    /\ error = [p \in Procs |-> "none"]
    /\ at_init = geom
    /\ ret = [op |-> "none"]
    /\ InitReturned

QueryInit == QueryInitAfter("build")
LoadedQueryInit == QueryInitAfter("load")

QueryNext ==
    \E p \in Procs :
        \/ InFid(p)
        \/ GetDriftCoordinate(p)
        \/ SolidAngle(p)

QuerySpec == QueryInit /\ [][QueryNext]_vars
LoadedQuerySpec == LoadedQueryInit /\ [][QueryNext]_vars

(***************************************************************************)
(* SignSpec: calls of the static method _rect_solid_angle_sign, with a     *)
(* coordinate and a rectangle extent rect_min <= rect_max drawn from       *)
(* -MaxCoord..MaxCoord.                                                    *)
(***************************************************************************)
RectSolidAngleSign ==
    /\ \E coord \in (-MaxCoord)..MaxCoord, rect_min \in (-MaxCoord)..MaxCoord,
          rect_max \in (-MaxCoord)..MaxCoord :
          /\ rect_min <= rect_max
          /\ ret' = [op |-> "rect_solid_angle_sign", coord |-> coord,
                     rect_min |-> rect_min, rect_max |-> rect_max,
                     out |-> rect_solid_angle_sign(coord, rect_min, rect_max)]
    /\ UNCHANGED <<lut_oor, files, store, pc, idx, data, geom, path, opened, wrote,
                   error, at_init>>

SignSpec == QueryInit /\ [][RectSolidAngleSign]_vars

(***************************************************************************)
(* Properties of the queries (QuerySpec).                                  *)
(***************************************************************************)
\* the two drift sub-boxes of a module with bounds b, each derived from b
PositiveDriftBox(b, mdd) == <<<<b[2][1] - mdd, b[1][2], b[1][3]>>, b[2]>>
NegativeDriftBox(b, mdd) == <<b[1], <<b[1][1] + mdd, b[2][2], b[2][3]>>>>
StrictlyInside(xyz, box, lo, hi) ==
    \A a \in 1..3 : xyz[a] > box[1][a] + lo[a] /\ xyz[a] < box[2][a] - hi[a]
FiducialInSubBoxes(mrb, mdd, xyz, cathode_fid, field_cage_fid, anode_fid) ==
    LET fid_cathode == <<cathode_fid, field_cage_fid, field_cage_fid>>
        fid_anode == <<anode_fid, field_cage_fid, field_cage_fid>>
    IN  \E i \in 1..Len(mrb) :
            \/ StrictlyInside(xyz, PositiveDriftBox(mrb[i], mdd), fid_cathode, fid_anode)
            \/ StrictlyInside(xyz, NegativeDriftBox(mrb[i], mdd), fid_anode, fid_cathode)

\* C1: in_fid returns True exactly when, for at least one module, the point
\* lies strictly inside the module's positive-drift sub-box
\* [max_x - max_drift_distance, max_x] or its negative-drift sub-box
\* [min_x, min_x + max_drift_distance], each derived from the bounds stored
\* at init and shrunk by the margins
C1_InFidChecksBothSubBoxes ==
    ret.op = "in_fid" =>
        ret.result = FiducialInSubBoxes(at_init[ret.proc].module_RO_bounds,
                                        at_init[ret.proc].max_drift_distance,
                                        ret.xyz, ret.cathode_fid,
                                        ret.field_cage_fid, ret.anode_fid)

\* C2: after init has returned, the query calls leave every field of the
\* geometry state as it was when init returned
C2_QueriesLeaveStateUnchanged ==
    \A p \in Procs : pc[p] = "done" => geom[p] = at_init[p]

\* C3: when in_fid has returned False for a point with one margin triple, it
\* returns False for that point with every componentwise greater or equal
\* margin triple
C3_FiducialMonotone ==
    ret.op = "in_fid" /\ ~ret.result =>
        \A c \in Margins, fc \in Margins, an \in Margins :
            c >= ret.cathode_fid /\ fc >= ret.field_cage_fid /\ an >= ret.anode_fid =>
                ~in_fid(geom[ret.proc].module_RO_bounds,
                        geom[ret.proc].max_drift_distance, ret.xyz, c, fc, an).result
\* in_fid has returned False, with margins, for a point that is fiducial with
\* margins 0
C3_Witness ==
    /\ ret.op = "in_fid" /\ ~ret.result
    /\ in_fid(geom[ret.proc].module_RO_bounds, geom[ret.proc].max_drift_distance,
              ret.xyz, 0, 0, 0).result

\* a point on a face of the box b
OnFace(xyz, b) ==
    /\ \A a \in 1..3 : b[1][a] <= xyz[a] /\ xyz[a] <= b[2][a]
    /\ \E a \in 1..3 : xyz[a] = b[1][a] \/ xyz[a] = b[2][a]
OnModuleFace(p, xyz) ==
    \/ \E i \in 1..Len(at_init[p].module_RO_bounds) :
          OnFace(xyz, at_init[p].module_RO_bounds[i])
    \/ \E i \in 1..Len(geom[p].module_RO_bounds) :
          OnFace(xyz, geom[p].module_RO_bounds[i])

\* C4: a point on a face of a module's unshrunk bounding box is returned as
\* fiducial by in_fid only when the three margins are 0
C4_FacePointOnlyWithZeroMargins ==
    ret.op = "in_fid" /\ OnModuleFace(ret.proc, ret.xyz) /\ ret.result =>
        ret.cathode_fid = 0 /\ ret.field_cage_fid = 0 /\ ret.anode_fid = 0
\* in_fid has been called for a face point with a margin above 0
C4_Witness ==
    /\ ret.op = "in_fid" /\ OnModuleFace(ret.proc, ret.xyz)
    /\ ret.cathode_fid + ret.field_cage_fid + ret.anode_fid > 0
    /\ ~ret.result

\* the tile id stored for the key of the last get_drift_coordinate call
TileOfCall == lut_get(geom[ret.proc].tile_id, <<ret.io_group, ret.io_channel>>)

\* C5: for a key the build mapped to a tile t and a drift distance d,
\* get_drift_coordinate returns anode_drift_coordinate[t] + drift_dir[t] * d
C5_DriftCoordinateAffine ==
    ret.op = "get_drift_coordinate" /\ TileOfCall # -1 =>
        ret.out = [err |-> "none",
                   val |-> lut_get(geom[ret.proc].anode_drift_coordinate, <<TileOfCall>>)
                           + lut_get(geom[ret.proc].drift_dir, <<TileOfCall>>) * ret.drift]
\* a call for a mapped key with a drift distance above 0 has returned a
\* coordinate away from the anode
C5_Witness ==
    /\ ret.op = "get_drift_coordinate" /\ TileOfCall # -1 /\ ret.drift > 0
    /\ ret.out.err = "none"
    /\ ret.out.val # lut_get(geom[ret.proc].anode_drift_coordinate, <<TileOfCall>>)

\* C6: get_drift_coordinate called with a key that was never mapped to a
\* tile reports an error and returns no drift coordinate
C6_UnmappedKeyIsReported ==
    ret.op = "get_drift_coordinate" /\ TileOfCall = -1 => ret.out.err # "none"

(***************************************************************************)
(* Properties of init (Spec).                                              *)
(***************************************************************************)
\* C7: a process whose init found the attributes persisted opens no
\* description file and writes nothing to the store, and when its init has
\* returned every scalar field and every table equals what the store holds
C7_LoadSkipsRebuild ==
    \A p \in Procs : path[p] = "load" =>
        /\ opened[p] = 0
        /\ wrote[p] = 0
        /\ pc[p] = "done" =>
              /\ \A f \in ScalarFields : geom[p][f] = store.attrs[f]
              /\ \A n \in Range(LutNames) : geom[p][n] = lut_deserialize(store.luts[n])
\* an init that took the load path has returned
C7_Witness == \E p \in Procs : path[p] = "load" /\ pc[p] = "done"

\* C8: when one init built and persisted the geometry and another init
\* loaded it from the same store, the loaded state equals the built one in
\* the five scalar fields and in the seven tables
C8_BuildLoadRoundTrip ==
    \A p \in Procs, q \in Procs :
        pc[p] = "done" /\ path[p] = "build" /\ pc[q] = "done" /\ path[q] = "load" =>
            \A f \in Fields : at_init[q][f] = at_init[p][f]
\* a build and a load on the same store have both returned, the build with
\* a cathode thickness above 0
C8_Witness ==
    \E p \in Procs, q \in Procs :
        /\ pc[p] = "done" /\ path[p] = "build" /\ pc[q] = "done" /\ path[q] = "load"
        /\ at_init[p].cathode_thickness > 0

\* C9: of the processes running init on one store, at most one executes the
\* build-and-persist step and writes the geometry group
C9_ExactlyOneBuilder ==
    Cardinality({p \in Procs : path[p] = "build" /\ wrote[p] > 0}) <= 1

\* C10: a process whose build raised has written no attribute value and no
\* table, and while no other process has written either, the store holds
\* no attribute and no table, so the next init takes the build path
C10_FailedBuildPersistsNothing ==
    \A p \in Procs : path[p] = "build" /\ error[p] # "none" =>
        /\ wrote[p] = 0
        /\ (\A q \in Procs : wrote[q] = 0) =>
              DOMAIN store.attrs = {} /\ DOMAIN store.luts = {}
\* a build has failed in the light builder, after the charge builder had
\* run through
C10_Witness ==
    \E p \in Procs :
        /\ pc[p] = "failed" /\ path[p] = "build"
        /\ error[p] = "IncompatibleVersion"
        /\ opened[p] = 3

\* C11: when the pixel layout has no multitile_layout_version key, the build
\* ends with the RuntimeError having opened the two charge documents only,
\* and having set no field at all: no table is allocated, no scalar set.
C11_MissingMultitileSetsNothing ==
    \A p \in Procs :
        error[p] = "RuntimeError" =>
            /\ ~files[p].multitile_layout_version
            /\ opened[p] = 2
            /\ wrote[p] = 0
            /\ DOMAIN BuildOf(files[p], lut_oor).r.set = {}
C11_Witness ==
    \E p \in Procs :
        /\ ~files[p].multitile_layout_version
        /\ pc[p] = "failed"
        /\ error[p] = "RuntimeError"

\* what the exception of a fatal configuration error is constructed from:
\* the RuntimeError from a literal message, the version error from the two
\* version strings handed to assert_compat_version
ErrorInfo(err) ==
    CASE err = "RuntimeError" -> {"message"}
      [] err = "IncompatibleVersion" -> {"version", "required_version"}
      [] OTHER -> {}

\* C12: every fatal configuration error of the build (missing
\* multitile_layout_version key, format-version mismatch) carries the path
\* of the offending description file and the name of the field.
C12_ConfigurationErrorNamesFileAndField ==
    \A p \in Procs :
        error[p] \in {"RuntimeError", "IncompatibleVersion"} =>
            {"file_path", "field_name"} \subseteq ErrorInfo(error[p])

\* load_geometry has returned or raised in process p
BuildEnded(p) ==
    path[p] = "build" /\ pc[p] \in {"set_attrs", "write_lut", "done", "failed"}

\* C13: a build whose pixel layout, detector layout or light layout states
\* a format version that is not compatible with the known-good one ends
\* with a fatal error.
C13_EveryDocumentVersionChecked ==
    \A p \in Procs :
        /\ BuildEnded(p)
        /\ \E v \in {files[p].crs_format_version, files[p].det_format_version,
                     files[p].format_version} :
              ~compat_version(v, KnownGoodVersion)
        => error[p] # "none"

(***************************************************************************)
(* Properties of solid_angle (QuerySpec).                                  *)
(***************************************************************************)
\* the detector plane and rectangle solid_angle uses for a detector
DetX(g, tpc, det) ==
    (lut_get(g.det_bounds, <<tpc, det>>)[1][1]
        + lut_get(g.det_bounds, <<tpc, det>>)[2][1]) \div 2
OnDetector(g, xyz, tpc, det) ==
    LET b == lut_get(g.det_bounds, <<tpc, det>>)
    IN  /\ xyz[1] = DetX(g, tpc, det)
        /\ b[1][2] < xyz[2] /\ xyz[2] < b[2][2]
        /\ b[1][3] < xyz[3] /\ xyz[3] < b[2][3]
\* a pair (point, detector) of the last call with the point on the detector
PairsOnDetector ==
    {nm \in (1..Len(ret.xyz)) \X (1..Len(ret.tpc_id)) :
        OnDetector(geom[ret.proc], ret.xyz[nm[1]], ret.tpc_id[nm[2]], ret.det_id[nm[2]])}

\* the detectors (tpc, det) for which some call's point lies on the detector
DetectorsOnPlane(g) ==
    {td \in TpcArgs \X DetArgs :
        \E xyz \in LightPoints : OnDetector(g, xyz, td[1], td[2])}

\* C14: for a point on the detector's plane (x the midpoint of the
\* detector's x bounds) with y and z strictly inside its rectangle, each of
\* the four corner terms has sign +1 and is arctan2(positive, 0) = pi/2, so
\* solid_angle returns 2*pi (four quarter turns) for that point and detector.
C14_OnDetectorPlaneTwoPi ==
    ret.op = "solid_angle" =>
        \A nm \in PairsOnDetector :
            \A i \in {j \in DOMAIN ret.out.omega : j[1] = nm[1] /\ j[Len(j)] = nm[2]} :
                /\ \A k \in 1..4 :
                      /\ ret.out.omega[i][k].sign = 1
                      /\ ret.out.omega[i][k].num > 0
                      /\ ret.out.omega[i][k].dx = 0
                      /\ arctan2(ret.out.omega[i][k]) = [exact |-> TRUE, quarter_turns |-> 1]
                /\ omega_sum(ret.out.omega[i]) = [exact |-> TRUE, quarter_turns |-> 4]
\* a call with two points and two detectors whose second point lies on its
\* second detector, off the rectangle's centre, and whose first does not lie
\* on the first detector's plane; every detector of the layout has a point
\* on it in some call
C14_Witness ==
    /\ ret.op = "solid_angle"
    /\ Len(ret.xyz) = 2 /\ Len(ret.tpc_id) = 2
    /\ <<2, 2>> \in PairsOnDetector
    /\ <<1, 2>> \notin PairsOnDetector
    /\ ret.xyz[2][2] * 2 # lut_get(geom[ret.proc].det_bounds, <<ret.tpc_id[2], ret.det_id[2]>>)[1][2]
                           + lut_get(geom[ret.proc].det_bounds, <<ret.tpc_id[2], ret.det_id[2]>>)[2][2]
    /\ omega_sum(ret.out.omega[<<2, 1, 2>>]).quarter_turns = 4
    /\ DetectorsOnPlane(geom[ret.proc]) = TpcArgs \X DetArgs

\* C15: solid_angle called with N points and M detectors returns an array
\* of shape (N, M) whose entry [n, m] is the solid angle of detector m seen
\* from point n.
C15_OmegaShapeNByM ==
    ret.op = "solid_angle" =>
        /\ ret.out.shape = <<Len(ret.xyz), Len(ret.tpc_id)>>
        /\ \A n \in 1..Len(ret.xyz), m \in 1..Len(ret.tpc_id) :
              /\ <<n, m>> \in DOMAIN ret.out.omega
              /\ ret.out.omega[<<n, m>>] =
                    solid_angle_terms(geom[ret.proc].det_bounds, ret.xyz[n],
                                      ret.tpc_id[m], ret.det_id[m])

(***************************************************************************)
(* Properties of the charge build (Spec).                                  *)
(***************************************************************************)
\* the charge builder of process p has run through
ChargeBuilt(p) ==
    BuildEnded(p) /\ error[p] \in {"none", "IncompatibleVersion"}
\* the key the builder computes for a chip of a tile in a module, and for
\* one of its channels
TileKey(d, m, tc) == <<IoGroupOf(d, m, tc[1], tc[2]), IoChannelOf(d, tc[1], tc[2])>>
PixelKey(d, m, tcc) ==
    <<IoGroupOf(d, m, tcc[1], tcc[2] \div 1000), IoChannelOf(d, tcc[1], tcc[2] \div 1000),
      tcc[2] \div 1000, tcc[2] % 1000>>

\* C16: after the charge build, for every module, tile and (chip, channel)
\* of a chip mapped on the tile, the pixel table holds at (io_group,
\* io_channel, chip, channel) the centred, pitch-scaled, oriented and
\* translated (z, y); so it does for the single-module, single-tile layout
\* with the 2x2 grid.
C16_PixelEntriesAtTheirKeys ==
    \A p \in Procs :
        /\ BuildEnded(p)
        /\ files[p].multitile_layout_version
        /\ files[p].layout \in {"std", "single"}
        => /\ ChargeBuilt(p)
           /\ \A m \in DOMAIN ReadFiles(files[p]).module_to_io_groups,
                 tcc \in TileChipChannels(ReadFiles(files[p])) :
                 /\ InRange(geom[p].pixel_coordinates_2D,
                            PixelKey(ReadFiles(files[p]), m, tcc))
                 /\ lut_get(geom[p].pixel_coordinates_2D,
                            PixelKey(ReadFiles(files[p]), m, tcc))
                       = PixelZY(ReadFiles(files[p]), m, tcc[1], tcc[2])

\* C18: the keys the builder computes for two different modules differ,
\* whatever the io_groups of the modules, so after the charge build the
\* tile-id entry of every module, tile and chip is that tile's global id.
C18_IoGroupsUniqueAcrossModules ==
    \A p \in Procs :
        ChargeBuilt(p) =>
            /\ \A m1 \in DOMAIN ReadFiles(files[p]).module_to_io_groups,
                  m2 \in DOMAIN ReadFiles(files[p]).module_to_io_groups,
                  tc1 \in TileChips(ReadFiles(files[p])),
                  tc2 \in TileChips(ReadFiles(files[p])) :
                  m1 # m2 => TileKey(ReadFiles(files[p]), m1, tc1)
                                # TileKey(ReadFiles(files[p]), m2, tc2)
            /\ \A m \in DOMAIN ReadFiles(files[p]).module_to_io_groups,
                  tc \in TileChips(ReadFiles(files[p])) :
                  ReadReaching(geom[p].tile_id, TileKey(ReadFiles(files[p]), m, tc), "default")
                      = tc[1] + (m - 1) * NTilesOf(ReadFiles(files[p]))

\* C19: for every module m and tile t, with any number of tiles per module
\* and of modules, the anode coordinate stored for g = t + (m-1)*N_tiles is
\* tile_positions[t][0] + cm * tpc_offsets[m-1][0] and the drift direction
\* stored for g is tile_orientations[t][0].
C19_AnodeTablesPerTile ==
    \A p \in Procs :
        /\ BuildEnded(p)
        /\ files[p].multitile_layout_version
        /\ files[p].layout \in {"std", "small"}
        => /\ ChargeBuilt(p)
           /\ \A m \in DOMAIN ReadFiles(files[p]).module_to_io_groups,
                 t \in DOMAIN ReadFiles(files[p]).tile_chip_to_io :
                 /\ lut_get(geom[p].anode_drift_coordinate,
                            <<t + (m - 1) * NTilesOf(ReadFiles(files[p]))>>)
                       = ReadFiles(files[p]).tile_positions[t][1]
                           + cm * ReadFiles(files[p]).tpc_offsets[m][1]
                 /\ lut_get(geom[p].drift_dir,
                            <<t + (m - 1) * NTilesOf(ReadFiles(files[p]))>>)
                       = ReadFiles(files[p]).tile_orientations[t][1]

\* the pixel positions the build populated for the io_groups of module m
PopulatedPositions(d, m) ==
    {w.val : w \in {v \in UNION {OrderedPixelWrites(d, k) : k \in DOMAIN d.module_to_io_groups} :
                       v.key[1] \in Range(d.module_to_io_groups[m])}}

\* C20: the y and z components of each module's module_RO_bounds entry are
\* the minimum and maximum over the pixel positions the build populated for
\* the module's io_groups (unpopulated keys do not contribute), and
\* min <= max on every axis.
C20_BoundsFromPopulatedPixels ==
    \A p \in Procs :
        ChargeBuilt(p) /\ files[p].layout \in {"std", "sparse"} =>
            \A m \in DOMAIN ReadFiles(files[p]).module_to_io_groups :
                /\ geom[p].module_RO_bounds[m][1][2]
                      = Min({zy[2] : zy \in PopulatedPositions(ReadFiles(files[p]), m)})
                /\ geom[p].module_RO_bounds[m][2][2]
                      = Max({zy[2] : zy \in PopulatedPositions(ReadFiles(files[p]), m)})
                /\ geom[p].module_RO_bounds[m][1][3]
                      = Min({zy[1] : zy \in PopulatedPositions(ReadFiles(files[p]), m)})
                /\ geom[p].module_RO_bounds[m][2][3]
                      = Max({zy[1] : zy \in PopulatedPositions(ReadFiles(files[p]), m)})
                /\ \A a \in 1..3 :
                      geom[p].module_RO_bounds[m][1][a] <= geom[p].module_RO_bounds[m][2][a]

(***************************************************************************)
(* Margins of in_fid (QuerySpec).                                          *)
(***************************************************************************)
\* C17: in_fid moves the anode-side drift face of each sub-box (max_x of
\* the positive-drift one, min_x of the negative-drift one) inward by the
\* anode margin, the cathode-facing one by the cathode margin and the
\* transverse faces by the field-cage margin: a point it accepts lies
\* strictly inside a sub-box shrunk so.
C17_MarginsAtTheirFaces ==
    ret.op = "in_fid" /\ ret.result =>
        \E i \in 1..Len(at_init[ret.proc].module_RO_bounds) :
            \/ StrictlyInside(ret.xyz,
                   PositiveDriftBox(at_init[ret.proc].module_RO_bounds[i],
                                    at_init[ret.proc].max_drift_distance),
                   <<ret.cathode_fid, ret.field_cage_fid, ret.field_cage_fid>>,
                   <<ret.anode_fid, ret.field_cage_fid, ret.field_cage_fid>>)
            \/ StrictlyInside(ret.xyz,
                   NegativeDriftBox(at_init[ret.proc].module_RO_bounds[i],
                                    at_init[ret.proc].max_drift_distance),
                   <<ret.anode_fid, ret.field_cage_fid, ret.field_cage_fid>>,
                   <<ret.cathode_fid, ret.field_cage_fid, ret.field_cage_fid>>)

(***************************************************************************)
(* Cathode thickness (Spec).                                               *)
(***************************************************************************)
\* the smallest distance between the lowest-x detector bound of process p
\* and a cathode plane (a module x offset, in mm)
AnodeToCathode(p) ==
    Min({Abs(geom[p].lar_detector_bounds[1][1] - cm * o[1]) :
            o \in Range(ReadFiles(files[p]).tpc_offsets)})

\* C21: after the charge build cathode_thickness is 2 * (a2c -
\* max_drift_distance) when max_drift_distance < a2c and 0 otherwise, a2c
\* being the smallest distance between the lowest-x detector bound and a
\* cathode plane; it is never negative.
C21_CathodeThickness ==
    \A p \in Procs :
        ChargeBuilt(p) =>
            /\ geom[p].cathode_thickness >= 0
            /\ geom[p].max_drift_distance < AnodeToCathode(p) =>
                  geom[p].cathode_thickness
                      = 2 * (AnodeToCathode(p) - geom[p].max_drift_distance)
            /\ geom[p].max_drift_distance >= AnodeToCathode(p) =>
                  geom[p].cathode_thickness = 0
\* a build has ended with the drift distance below the anode-to-cathode
\* distance, and another with the drift distance reaching it
C21_Witness ==
    \E p \in Procs :
        /\ ChargeBuilt(p) /\ pc[p] = "write_lut"
        /\ geom[p].max_drift_distance < AnodeToCathode(p)
        /\ geom[p].cathode_thickness > 0

(***************************************************************************)
(* Properties of the light build (Spec).                                   *)
(***************************************************************************)
\* load_geometry has run through in process p
LightBuilt(p) == BuildEnded(p) /\ error[p] = "none"
\* the digitizer addresses the light layout lists: (tpc, det, adc, channel)
ListedAddresses(d) ==
    {<<td[1], td[2], d.det_adc[td[1]][td[2]], c>> :
        td \in (DOMAIN d.tpc_center) \X (DOMAIN d.det_center),
        c \in UNION {Range(d.det_chan[t][dd]) :
                       t \in DOMAIN d.tpc_center, dd \in DOMAIN d.det_center}}
        \cap {a \in (DOMAIN d.tpc_center) \X (DOMAIN d.det_center) \X Int \X Int :
                 a[4] # -1 /\ a[4] \in Range(d.det_chan[a[1]][a[2]])}
NoSharedAddress(d) ==
    \A a \in ListedAddresses(d), b \in ListedAddresses(d) :
        <<a[3], a[4]>> = <<b[3], b[4]>> => <<a[1], a[2]>> = <<b[1], b[2]>>

\* C22: after the light build, when no two (tpc, detector) pairs share a
\* digitizer address, tpc_id and det_id hold at (adc, c) the TPC and the
\* detector of every listed channel c, read -1 at every other key of their
\* ranges, have no key for an unused slot (-1), and are both allocated
\* over the min and max of the listed adc and channel values.
C22_LightTablesByAddress ==
    \A p \in Procs :
        LightBuilt(p) /\ NoSharedAddress(ReadFiles(files[p])) =>
            /\ \A a \in ListedAddresses(ReadFiles(files[p])) :
                  /\ InRange(geom[p].tpc_id, <<a[3], a[4]>>)
                  /\ lut_get(geom[p].tpc_id, <<a[3], a[4]>>) = a[1]
                  /\ lut_get(geom[p].det_id, <<a[3], a[4]>>) = a[2]
                  /\ ~InRange(geom[p].tpc_id, <<a[3], -1>>)
            /\ \A k \in lut_keys(geom[p].tpc_id) :
                  (\A a \in ListedAddresses(ReadFiles(files[p])) : k # <<a[3], a[4]>>) =>
                      /\ lut_get(geom[p].tpc_id, k) = -1
                      /\ lut_get(geom[p].det_id, k) = -1
            /\ geom[p].tpc_id.min_max_keys = geom[p].det_id.min_max_keys
            /\ geom[p].tpc_id.min_max_keys =
                  <<MinMax({a[3] : a \in ListedAddresses(ReadFiles(files[p]))}),
                    MinMax({a[4] : a \in ListedAddresses(ReadFiles(files[p]))})>>
\* a light build has left a key of the ranges that no detector uses, and a
\* detector whose channel list is shorter than the longest
C22_Witness ==
    \E p \in Procs :
        /\ LightBuilt(p) /\ NoSharedAddress(ReadFiles(files[p]))
        /\ \E k \in lut_keys(geom[p].tpc_id) :
              /\ \A a \in ListedAddresses(ReadFiles(files[p])) : k # <<a[3], a[4]>>
              /\ lut_get(geom[p].tpc_id, k) = -1
        /\ \E a \in ListedAddresses(ReadFiles(files[p])) :
              lut_get(geom[p].det_id, <<a[3], a[4]>>) = 1

(***************************************************************************)
(* Properties of _rect_solid_angle_sign (SignSpec).                        *)
(***************************************************************************)
\* C23: for rect_min <= rect_max, _rect_solid_angle_sign returns two signs
\* in {-1, +1}: both +1 when the coordinate lies in [rect_min, rect_max];
\* outside it, -1 for the nearer edge and +1 for the farther one, so
\* sign_min = -sign_max.
C23_RectSolidAngleSigns ==
    ret.op = "rect_solid_angle_sign" =>
        /\ ret.out[1] \in {-1, 1} /\ ret.out[2] \in {-1, 1}
        /\ (ret.rect_min <= ret.coord /\ ret.coord <= ret.rect_max) =>
              ret.out = <<1, 1>>
        /\ ret.coord < ret.rect_min =>
              /\ ret.out[1] = -ret.out[2]
              /\ ret.rect_min < ret.rect_max => ret.out = <<-1, 1>>
        /\ ret.coord > ret.rect_max =>
              /\ ret.out[1] = -ret.out[2]
              /\ ret.rect_min < ret.rect_max => ret.out = <<1, -1>>
\* a call with the coordinate below the extent has returned
C23_Witness ==
    /\ ret.op = "rect_solid_angle_sign"
    /\ ret.coord < ret.rect_min /\ ret.rect_min < ret.rect_max
    /\ ret.out = <<-1, 1>>

(***************************************************************************)
(* Keys written by the charge build (Spec).                                *)
(***************************************************************************)
\* the charge builder of process p has entered its loop over the modules
ModuleLoopEntered(p) ==
    BuildEnded(p) /\ charge_geometry_error(ReadFiles(files[p])) = "none"

\* C24: every key the charge build writes to a table lies inside the key
\* ranges the table was allocated with, for every number of modules and
\* every layout: the pixel keys, the tile-id keys and the tile ids of the
\* anode-coordinate and drift-direction tables.
C24_WrittenKeysInsideRanges ==
    \A p \in Procs :
        ModuleLoopEntered(p) =>
            /\ \A t \in Tiles(ReadFiles(files[p])) :
                  /\ InRange(geom[p].anode_drift_coordinate, <<t>>)
                  /\ InRange(geom[p].drift_dir, <<t>>)
            /\ \A m \in DOMAIN ReadFiles(files[p]).module_to_io_groups :
                  /\ \A tc \in TileChips(ReadFiles(files[p])) :
                        InRange(geom[p].tile_id, TileKey(ReadFiles(files[p]), m, tc))
                  /\ \A tcc \in TileChipChannels(ReadFiles(files[p])) :
                        InRange(geom[p].pixel_coordinates_2D,
                                PixelKey(ReadFiles(files[p]), m, tcc))

(***************************************************************************)
(* The store between init's writes (Spec).                                 *)
(***************************************************************************)
\* C25: in every state init can leave the store in, also part-way through
\* its persist step, non-empty attributes of the geometry group come with
\* all seven tables in the store, so an init on the load path never finds
\* a table missing.
C25_AttrsImplyAllTables ==
    /\ DOMAIN store.attrs # {} =>
          \A n \in Range(LutNames) : n \in DOMAIN store.luts
    /\ \A p \in Procs : path[p] = "load" => error[p] = "none"

(***************************************************************************)
(* Repeated calls of in_fid (LoadedQuerySpec).                             *)
(***************************************************************************)
\* C26: a call of in_fid, after any in_fid calls made before it on the same
\* geometry, returns what the first call after init returns for the same
\* point and margins (and leaves the bounds the first call leaves).
C26_InFidRepeatable ==
    ret.op = "in_fid" =>
        /\ ret.result =
              in_fid(at_init[ret.proc].module_RO_bounds,
                     at_init[ret.proc].max_drift_distance, ret.xyz,
                     ret.cathode_fid, ret.field_cage_fid, ret.anode_fid).result
        /\ geom[ret.proc].module_RO_bounds =
              drift_regions(at_init[ret.proc].module_RO_bounds,
                            at_init[ret.proc].max_drift_distance)
        /\ \A xyz \in Points, c \in Margins, fc \in Margins, an \in Margins :
              in_fid(geom[ret.proc].module_RO_bounds,
                     geom[ret.proc].max_drift_distance, xyz, c, fc, an)
                  = [result |-> in_fid(at_init[ret.proc].module_RO_bounds,
                                       at_init[ret.proc].max_drift_distance,
                                       xyz, c, fc, an).result,
                     module_RO_bounds |-> geom[ret.proc].module_RO_bounds]
\* in_fid has returned True on a loaded geometry whose bounds in_fid has
\* rewritten, in the object and in the attributes it was loaded from
C26_Witness ==
    /\ ret.op = "in_fid" /\ ret.result
    /\ geom[ret.proc].module_RO_bounds # at_init[ret.proc].module_RO_bounds
    /\ path[ret.proc] = "load"
    /\ data[ret.proc].module_RO_bounds = geom[ret.proc].module_RO_bounds
    /\ data[ret.proc].module_RO_bounds # store.attrs.module_RO_bounds

====
